---- MODULE Spec2Model ----
(***************************************************************************)
(* Verification model of seireitranslations-epub.                          *)
(*                                                                         *)
(* Spec       : the run of app.Execute -- setup, the entry loop with the   *)
(*              chapter assembler, the final flush and Write.              *)
(* PageSpec   : the processing of one entry's page -- fetch, pattern       *)
(*              locator, Scraper.ExtractContent, CleanHTML, ProcessImages. *)
(***************************************************************************)
EXTENDS Integers, Sequences, FiniteSets, TLC

(***************************************************************************)
(* Bounds of the model.                                                    *)
(***************************************************************************)
MaxEntries == 3

(***************************************************************************)
(* Domains.                                                                *)
(***************************************************************************)
\* declared chapter titles of the input list
Titles == {"Ch1", "Ch2"}

\* reasons for which Scraper.ExtractContent returns an error
ExtractErrors == {"transport", "status", "parse", "notfound"}

\* byte lengths of a processed fragment: goquery serialises a whole document,
\* "<html><head></head><body>...</body></html>", so a fragment is never empty
FragLens == {40, 120}

\* debug file slot states: no file, a file left by an earlier run
NoFile == -1
StaleFile == 0

VARIABLES
    pc,              \* position of Execute
    exitCode,        \* value returned by Execute (-1 while running)
    debug,           \* cfg.Debug
    listFile,        \* entries of the URL list file, in file order
    urlEntries,      \* urlEntries of Execute
    i,               \* number of loop iterations completed
    currentChapter,  \* <<>> for nil, else <<[Title, Content]>>
    chapterIndex,    \* chapterIndex of Execute
    addCalls,        \* calls of Generator.AddChapter, in call order
    debugFiles,      \* debug_<title>_final.html per sanitised title
    trace,           \* what each loop iteration did, in order
    imageWarned,     \* an image of some processed entry could not be stored
    ppc,             \* position in the processing of one entry's page
    page,            \* the fetched document (goquery.Document), <<>> if none
    doc,             \* the content document being normalised
    tried,           \* names of the extraction patterns evaluated, in order
    found,           \* found of extractContentWithPatterns
    passes,          \* transforms applied to the fragment, in order
    net,             \* outcome of the page fetch and of the other externals
    imgLog,          \* image references handed to the downloader, in order
    lpc,             \* position of ReadURLList
    data,            \* content of the URL list file, character by character
    entries,         \* entries of ReadURLList
    dpc,             \* number of DownloadFile calls made
    cache,           \* files of the downloader's temp directory, by name
    requests,        \* network requests of the downloader, in order
    dlRet,           \* what the last DownloadFile call returned
    timeline         \* page requests and delays of the scraper, in order

execVars == <<pc, exitCode, listFile, urlEntries, i, currentChapter,
              chapterIndex, addCalls, debugFiles, trace, imageWarned>>

pageVars == <<ppc, page, doc, tried, found, passes, net, imgLog>>

listVars == <<lpc, data, entries>>

dlVars == <<dpc, cache, requests, dlRet>>

auxVars == <<listVars, dlVars, timeline>>

vars == <<execVars, debug, pageVars, auxVars>>

(***************************************************************************)
(* Pure helpers.                                                           *)
(***************************************************************************)
RECURSIVE SumLen(_)
\* strings.Builder.Len of the concatenated pieces
SumLen(s) == IF s = <<>> THEN 0 ELSE Head(s).len + SumLen(Tail(s))

\* characters of the modelled titles
TitleChars(t) == IF t = "Ch1" THEN <<"C", "h", "1">> ELSE <<"C", "h", "2">>

AlnumChars == {"C", "h", "1", "2", "_"}

\* sanitizeFilename: every character outside [a-zA-Z0-9_] becomes "_",
\* the result is cut at 50 characters
sanitizeFilename(t) ==
    LET cs == TitleChars(t)
        safe == [k \in 1..Len(cs) |-> IF cs[k] \in AlnumChars THEN cs[k] ELSE "_"]
    IN  IF Len(safe) > 50 THEN SubSeq(safe, 1, 50) ELSE safe

SafeTitles == {sanitizeFilename(t) : t \in Titles}

\* epub.NewChapter
NewChapter(title) == [Title |-> title, Content |-> <<>>]

\* AppendContent that overwrites the accumulated content
AppendContentOverwrites(c, piece) == [c EXCEPT !.Content = <<piece>>]

\* Chapter.AppendContent
AppendContent(c, piece) == [c EXCEPT !.Content = Append(@, piece)]

\* Chapter.HasContent
HasContent(c) == SumLen(c.Content) > 0

\* HTMLProcessor.ProcessChapterContent: the content wrapped into the chapter
\* page; in debug mode a content shorter than 100 bytes is replaced by the
\* content of debug_<title>_final.html when that file can be read
ProcessChapterContent(title, content) ==
    LET key == sanitizeFilename(title)
        subst == debug /\ SumLen(content) < 100 /\ debugFiles[key] # NoFile
    IN  [title |-> title,
         content |-> IF subst
                     THEN <<[src |-> "file", id |-> debugFiles[key], len |-> 200]>>
                     ELSE content]

\* the debug files after ProcessChapterContent ran as the n-th call
FilesAfterProcess(title, n) ==
    IF debug THEN [debugFiles EXCEPT ![sanitizeFilename(title)] = n]
    ELSE debugFiles

\* AddChapter called with the title of the entry at hand instead of the
\* title of the chapter being closed
AddChapterCallEntryTitle(c, err) ==
    [title |-> IF i < Len(urlEntries) THEN urlEntries[i + 1].Title ELSE c.Title,
     content |-> c.Content,
     body |-> ProcessChapterContent(c.Title, c.Content),
     err |-> err,
     at |-> i]

\* one call of Generator.AddChapter for the chapter c
AddChapterCall(c, err) ==
    [title |-> c.Title,
     content |-> c.Content,
     body |-> ProcessChapterContent(c.Title, c.Content),
     err |-> err,
     at |-> i]

(***************************************************************************)
(* Init: the state before Execute runs.                                    *)
(***************************************************************************)
\* a failed ExtractContent: the page was requested, the error is returned
\* before the delay
RequestOnly == <<"fetch">>

\* a successful ExtractContent: the page was requested and, before the
\* return, time.Sleep(500 * time.Millisecond)
RequestThenDelay == <<"fetch", "sleep">>

\* byte contents of the downloader's files and responses
NoBytes == "none"

\* file names the callers of DownloadFile supply; "" is no file name
CacheNames == {"cover.jpg", "image_0.png"}

\* no response body
EmptyBody == ""

\* DownloadFile has not been called
NoCall == [url |-> "", filename |-> "", data |-> NoBytes, err |-> "none",
           warned |-> FALSE]

\* ReadURLList and the downloader have not run
AuxIdle ==
    /\ lpc = "idle"
    /\ data = <<>>
    /\ entries = [list |-> <<>>, invalid |-> <<>>]
    /\ dpc = 0
    /\ cache = [f \in CacheNames |-> NoBytes]
    /\ requests = <<>>
    /\ dlRet = NoCall
    /\ timeline = <<>>

Init ==
    /\ pc = "parse"
    /\ exitCode = -1
    /\ debug = FALSE
    /\ listFile \in UNION {[1..n -> Titles] : n \in 0..MaxEntries}
    /\ urlEntries = <<>>
    /\ i = 0
    /\ currentChapter = <<>>
    /\ chapterIndex = 1
    /\ addCalls = <<>>
    /\ debugFiles = [k \in SafeTitles |-> NoFile]
    /\ trace = <<>>
    /\ imageWarned = FALSE
    /\ ppc = "idle"
    /\ page = <<>>
    /\ doc = <<>>
    /\ tried = <<>>
    /\ found = FALSE
    /\ passes = <<>>
    /\ net = "none"
    /\ imgLog = <<>>
    /\ AuxIdle

Fatal ==
    /\ pc' = "exit"
    /\ exitCode' = 1

(***************************************************************************)
(* Setup steps of Execute.                                                 *)
(***************************************************************************)
\* config.ParseCommandLine; in debug mode the temp directory is
\* <output>.tmp and may hold the files of an earlier run
ParseCommandLine ==
    /\ pc = "parse"
    /\ \E ok \in BOOLEAN, d \in BOOLEAN :
        IF ok
        THEN /\ pc' = "cover"
             /\ debug' = d
             /\ debugFiles' \in IF d THEN [SafeTitles -> {NoFile, StaleFile}]
                                ELSE {debugFiles}
             /\ UNCHANGED exitCode
        ELSE /\ Fatal
             /\ UNCHANGED <<debug, debugFiles>>
    /\ UNCHANGED <<listFile, urlEntries, i, currentChapter, chapterIndex,
                   addCalls, trace, imageWarned>>
    /\ UNCHANGED <<pageVars, auxVars>>

\* dl.DownloadFile(cfg.CoverURL, ...) and epubGen.AddCover
DownloadCover ==
    /\ pc = "cover"
    /\ \E ok \in BOOLEAN :
        IF ok THEN pc' = "css" /\ UNCHANGED exitCode ELSE Fatal
    /\ UNCHANGED <<debug, listFile, urlEntries, i, currentChapter,
                   chapterIndex, addCalls, debugFiles, trace, imageWarned>>
    /\ UNCHANGED <<pageVars, auxVars>>

\* assets.GetCSS and epubGen.AddCSS
AddCSS ==
    /\ pc = "css"
    /\ \E ok \in BOOLEAN :
        IF ok THEN pc' = "readlist" /\ UNCHANGED exitCode ELSE Fatal
    /\ UNCHANGED <<debug, listFile, urlEntries, i, currentChapter,
                   chapterIndex, addCalls, debugFiles, trace, imageWarned>>
    /\ UNCHANGED <<pageVars, auxVars>>

\* utils.ReadURLList followed by AddAttributionChapter (whose error is only
\* logged)
ReadURLList ==
    /\ pc = "readlist"
    /\ \E ok \in BOOLEAN :
        IF ok
        THEN /\ urlEntries' = [k \in 1..Len(listFile) |->
                                  [Title |-> listFile[k], URL |-> k]]
             /\ pc' = "loop"
             /\ UNCHANGED exitCode
        ELSE /\ Fatal
             /\ UNCHANGED urlEntries
    /\ UNCHANGED <<debug, listFile, i, currentChapter, chapterIndex,
                   addCalls, debugFiles, trace, imageWarned>>
    /\ UNCHANGED <<pageVars, auxVars>>

(***************************************************************************)
(* The entry loop of Execute.                                              *)
(***************************************************************************)
\* ExtractContent error handled by returning from Execute instead of continue
SkipEntryAborts ==
    /\ pc = "loop"
    /\ i < Len(urlEntries)
    /\ \E why \in ExtractErrors :
        trace' = Append(trace, [idx |-> i + 1, res |-> why])
    /\ UNCHANGED imageWarned
    /\ i' = i + 1
    /\ Fatal
    /\ UNCHANGED <<debug, listFile, urlEntries, currentChapter,
                   chapterIndex, addCalls, debugFiles>>
    /\ timeline' = timeline \o RequestOnly
    /\ UNCHANGED <<pageVars, listVars, dlVars>>

\* s.ExtractContent returns an error: the entry is logged and skipped
SkipEntry ==
    /\ pc = "loop"
    /\ i < Len(urlEntries)
    /\ \E why \in ExtractErrors :
        trace' = Append(trace, [idx |-> i + 1, res |-> why])
    /\ UNCHANGED imageWarned
    /\ i' = i + 1
    /\ UNCHANGED <<pc, exitCode, debug, listFile, urlEntries, currentChapter,
                   chapterIndex, addCalls, debugFiles>>
    /\ timeline' = timeline \o RequestOnly
    /\ UNCHANGED <<pageVars, listVars, dlVars>>

\* ContinueChapter in which an image that cannot be stored ends the run
ContinueChapterImageFatal ==
    /\ pc = "loop"
    /\ i < Len(urlEntries)
    /\ currentChapter # <<>>
    /\ urlEntries[i + 1].Title = currentChapter[1].Title
    /\ \E n \in FragLens :
        currentChapter' = <<AppendContent(currentChapter[1],
                               [src |-> "entry", id |-> i + 1, len |-> n])>>
    /\ trace' = Append(trace, [idx |-> i + 1, res |-> "append"])
    /\ \E failed \in BOOLEAN :
        /\ imageWarned' = (imageWarned \/ failed)
        /\ IF failed THEN Fatal ELSE UNCHANGED <<pc, exitCode>>
    /\ i' = i + 1
    /\ UNCHANGED <<debug, listFile, urlEntries, chapterIndex,
                   addCalls, debugFiles>>
    /\ timeline' = timeline \o RequestThenDelay
    /\ UNCHANGED <<pageVars, listVars, dlVars>>

\* the entry was extracted, cleaned and its images processed (an image that
\* cannot be downloaded, saved or added is only logged), and its title equals
\* the title of the open chapter
ContinueChapter ==
    /\ pc = "loop"
    /\ i < Len(urlEntries)
    /\ currentChapter # <<>>
    /\ urlEntries[i + 1].Title = currentChapter[1].Title
    /\ \E n \in FragLens :
        currentChapter' = <<AppendContent(currentChapter[1],
                               [src |-> "entry", id |-> i + 1, len |-> n])>>
    /\ trace' = Append(trace, [idx |-> i + 1, res |-> "append"])
    /\ \E failed \in BOOLEAN : imageWarned' = (imageWarned \/ failed)
    /\ i' = i + 1
    /\ UNCHANGED <<pc, exitCode, debug, listFile, urlEntries, chapterIndex,
                   addCalls, debugFiles>>
    /\ timeline' = timeline \o RequestThenDelay
    /\ UNCHANGED <<pageVars, listVars, dlVars>>

\* a new chapter added to the book as soon as it is created, before the
\* entry's content is appended to it
StartChapterEmitsNew ==
    /\ pc = "loop"
    /\ i < Len(urlEntries)
    /\ ~(currentChapter # <<>> /\ urlEntries[i + 1].Title = currentChapter[1].Title)
    /\ \E err \in BOOLEAN :
        addCalls' = Append(addCalls,
                           AddChapterCall(NewChapter(urlEntries[i + 1].Title), err))
    /\ debugFiles' = FilesAfterProcess(urlEntries[i + 1].Title, Len(addCalls) + 1)
    /\ \E n \in FragLens :
        currentChapter' = <<AppendContent(NewChapter(urlEntries[i + 1].Title),
                               [src |-> "entry", id |-> i + 1, len |-> n])>>
    /\ chapterIndex' = chapterIndex + 1
    /\ trace' = Append(trace, [idx |-> i + 1, res |-> "new"])
    /\ \E failed \in BOOLEAN : imageWarned' = (imageWarned \/ failed)
    /\ i' = i + 1
    /\ UNCHANGED <<pc, exitCode, debug, listFile, urlEntries>>
    /\ timeline' = timeline \o RequestThenDelay
    /\ UNCHANGED <<pageVars, listVars, dlVars>>

\* a new chapter started without adding the previous one
StartChapterDropsPrevious ==
    /\ pc = "loop"
    /\ i < Len(urlEntries)
    /\ ~(currentChapter # <<>> /\ urlEntries[i + 1].Title = currentChapter[1].Title)
    /\ \E n \in FragLens :
        currentChapter' = <<AppendContent(NewChapter(urlEntries[i + 1].Title),
                               [src |-> "entry", id |-> i + 1, len |-> n])>>
    /\ chapterIndex' = chapterIndex + 1
    /\ trace' = Append(trace, [idx |-> i + 1, res |-> "new"])
    /\ \E failed \in BOOLEAN : imageWarned' = (imageWarned \/ failed)
    /\ i' = i + 1
    /\ UNCHANGED <<pc, exitCode, debug, listFile, urlEntries, addCalls, debugFiles>>
    /\ timeline' = timeline \o RequestThenDelay
    /\ UNCHANGED <<pageVars, listVars, dlVars>>

\* the entry was extracted, cleaned and its images processed, and it starts
\* a new chapter: the previous chapter, if it has content, is added first
StartChapter ==
    /\ pc = "loop"
    /\ i < Len(urlEntries)
    /\ ~(currentChapter # <<>> /\ urlEntries[i + 1].Title = currentChapter[1].Title)
    /\ IF currentChapter # <<>> /\ HasContent(currentChapter[1])
       THEN /\ \E err \in BOOLEAN :
                addCalls' = Append(addCalls, AddChapterCall(currentChapter[1], err))
            /\ debugFiles' = FilesAfterProcess(currentChapter[1].Title,
                                               Len(addCalls) + 1)
       ELSE UNCHANGED <<addCalls, debugFiles>>
    /\ \E n \in FragLens :
        currentChapter' = <<AppendContent(NewChapter(urlEntries[i + 1].Title),
                               [src |-> "entry", id |-> i + 1, len |-> n])>>
    /\ chapterIndex' = chapterIndex + 1
    /\ trace' = Append(trace, [idx |-> i + 1, res |-> "new"])
    /\ \E failed \in BOOLEAN : imageWarned' = (imageWarned \/ failed)
    /\ i' = i + 1
    /\ UNCHANGED <<pc, exitCode, debug, listFile, urlEntries>>
    /\ timeline' = timeline \o RequestThenDelay
    /\ UNCHANGED <<pageVars, listVars, dlVars>>

\* the loop left without adding the last chapter
FlushLastForgets ==
    /\ pc = "loop"
    /\ i = Len(urlEntries)
    /\ pc' = "write"
    /\ UNCHANGED <<exitCode, debug, listFile, urlEntries, i, currentChapter,
                   chapterIndex, trace, addCalls, debugFiles,
                   imageWarned>>
    /\ UNCHANGED <<pageVars, auxVars>>

\* after the loop: the last chapter, if there is one with content, is added
FlushLast ==
    /\ pc = "loop"
    /\ i = Len(urlEntries)
    /\ IF currentChapter # <<>> /\ HasContent(currentChapter[1])
       THEN /\ \E err \in BOOLEAN :
                addCalls' = Append(addCalls, AddChapterCall(currentChapter[1], err))
            /\ debugFiles' = FilesAfterProcess(currentChapter[1].Title,
                                               Len(addCalls) + 1)
       ELSE UNCHANGED <<addCalls, debugFiles>>
    /\ pc' = "write"
    /\ UNCHANGED <<exitCode, debug, listFile, urlEntries, i, currentChapter,
                   chapterIndex, trace, imageWarned>>
    /\ UNCHANGED <<pageVars, auxVars>>

\* epubGen.Write and the return of Execute
Write ==
    /\ pc = "write"
    /\ \E ok \in BOOLEAN :
        IF ok THEN pc' = "done" /\ exitCode' = 0 ELSE Fatal
    /\ UNCHANGED <<debug, listFile, urlEntries, i, currentChapter,
                   chapterIndex, addCalls, debugFiles, trace, imageWarned>>
    /\ UNCHANGED <<pageVars, auxVars>>

Next ==
    \/ ParseCommandLine
    \/ DownloadCover
    \/ AddCSS
    \/ ReadURLList
    \/ SkipEntry
    \/ ContinueChapter
    \/ StartChapter
    \/ FlushLast
    \/ Write

Spec == Init /\ [][Next]_vars

(***************************************************************************)
(* Runs against servers that may never respond.  The page fetch is         *)
(* http.Get on the default client, which has no timeout: when the server   *)
(* never responds the call never returns.  The downloads of the cover and  *)
(* of the images use a client with a timeout of 30 seconds and return an   *)
(* error, which DownloadCover and the loop actions already cover.          *)
(***************************************************************************)
\* s.ExtractContent blocks in http.Get for ever
FetchHangs ==
    /\ pc = "loop"
    /\ i < Len(urlEntries)
    /\ pc' = "blocked"
    /\ timeline' = timeline \o RequestOnly
    /\ UNCHANGED <<exitCode, debug, listFile, urlEntries, i, currentChapter,
                   chapterIndex, addCalls, debugFiles, trace, imageWarned>>
    /\ UNCHANGED <<pageVars, listVars, dlVars>>

LiveNext ==
    \/ Next
    \/ FetchHangs

\* Execute is one sequential thread: a step that can be taken is taken
LiveSpec == Init /\ [][LiveNext]_vars /\ WF_vars(LiveNext)

(***************************************************************************)
(* Markup trees.                                                           *)
(*                                                                         *)
(* A tree is the sequence of its element nodes in document order; d is the *)
(* depth of a node, the root (the body of a parsed document, or a cloned   *)
(* container) is the first node and has depth 0.  text is the text the     *)
(* element has of its own, a sequence of tokens.                           *)
(***************************************************************************)
MaxBlocks == 2

N(tag, d, cls, style, text, src, href) ==
    [tag |-> tag, d |-> d, cls |-> cls, style |-> style, text |-> text,
     src |-> src, href |-> href, attrs |-> {}, id |-> 0]

\* the body element html.Parse gives every document
BodyNode == N("body", 0, "", "", <<>>, "", "")

\* style attribute values and the substrings the selectors look for
StyleCenterSp == "text-align: center"
StyleCenter == "text-align:center"
Style800 == "font-weight:800"
Style800Sp == "font-weight: 800"
StyleResponsive == "max-width: 100%; height: auto;"

\* [style*=center]
HasCenter(st) == st \in {StyleCenterSp, StyleCenter}
\* [style*='text-align: center']
HasTextAlignCenter(st) == st = StyleCenterSp
\* [style*='800']
Has800(st) == st \in {Style800, Style800Sp}
\* [style*='font-weight: 800'], [style*='font-weight:800']
HasFontWeight800(st) == st \in {Style800, Style800Sp}

\* text tokens: the ones TrimSpace removes, the ones that begin with "part "
SpaceTokens == {"ws", "sp", "nbsp"}
PartTokens == {"Part 2", "part 3"}

\* source and target URLs of images and links
RelURLs == {"img/a.png", "../b.png"}
AbsURLs == {"http://h/c.png", "http://h/d.jpg"}

\* fresh node identities for one traversal
WithIds(t) == [k \in 1..Len(t) |-> [t[k] EXCEPT !.id = k]]

Min(S) == CHOOSE x \in S : \A y \in S : x <= y
Max(S) == CHOOSE x \in S : \A y \in S : x >= y

\* last position of the subtree of node k
BlockEnd(t, k) ==
    LET later == {j \in (k + 1)..Len(t) : t[j].d <= t[k].d}
    IN  IF later = {} THEN Len(t) ELSE Min(later) - 1

\* positions of the descendants of node k, Selection.Find("*")
Desc(t, k) == (k + 1)..BlockEnd(t, k)

\* position of the parent of node k, 0 for the root
Parent(t, k) ==
    LET up == {j \in 1..(k - 1) : t[j].d = t[k].d - 1}
    IN  IF up = {} THEN 0 ELSE Max(up)

\* positions of the ancestors of node k, Selection.Parents()
Ancestors(t, k) == {j \in 1..(k - 1) : k <= BlockEnd(t, j)}

\* position of the node with identity id, 0 when it left the tree
PosOf(t, id) ==
    LET at == {k \in 1..Len(t) : t[k].id = id}
    IN  IF at = {} \/ id = 0 THEN 0 ELSE Min(at)

\* Selection.Remove: the node and its subtree leave the tree
RemoveAt(t, k) == SubSeq(t, 1, k - 1) \o SubSeq(t, BlockEnd(t, k) + 1, Len(t))

\* Selection.ReplaceWithHtml: the subtree of k replaced by the nodes ns
\* (depths of ns relative to the depth of k)
ReplaceAt(t, k, ns) ==
    SubSeq(t, 1, k - 1)
    \o [j \in 1..Len(ns) |-> [ns[j] EXCEPT !.d = @ + t[k].d]]
    \o SubSeq(t, BlockEnd(t, k) + 1, Len(t))

\* Selection.Clone: the subtree of k as a tree of its own
Clone(t, k) ==
    [j \in 1..(BlockEnd(t, k) - k + 1) |->
        [t[k + j - 1] EXCEPT !.d = @ - t[k].d]]

\* goquery.NewDocumentFromReader of the inner markup of a tree: the markup
\* under a body element
NewDocument(inner) == <<BodyNode>> \o inner

\* Selection.Html: the inner markup of the root of a tree
InnerOf(t) == Tail(t)

RECURSIVE ConcatText(_, _, _)
ConcatText(t, a, b) ==
    IF a > b THEN <<>> ELSE t[a].text \o ConcatText(t, a + 1, b)

\* Selection.Text: the text of node k and of its descendants
TextOf(t, k) == ConcatText(t, k, BlockEnd(t, k))

\* strings.TrimSpace(text) == ""
IsBlank(txt) == \A j \in 1..Len(txt) : txt[j] \in SpaceTokens

\* strings.HasPrefix(strings.ToLower(text), "part ")
IsPartText(txt) == txt # <<>> /\ txt[1] \in PartTokens

\* s.Find("img").Length() > 0
HasImg(t, k) == \E j \in Desc(t, k) : t[j].tag = "img"

\* the serialised inner markup of node k: what Selection.Html compares
InnerHtml(t, k) ==
    <<t[k].text,
      [j \in 1..(BlockEnd(t, k) - k) |->
          [t[k + j] EXCEPT !.d = @ - t[k].d, !.id = 0]]>>

\* strings.Contains(strings.ToLower(html), w) for the inner markup of node k
InnerContains(t, k, w) ==
    \/ \E j \in 1..Len(t[k].text) : t[k].text[j] = w
    \/ \E m \in Desc(t, k) :
          \/ \E j \in 1..Len(t[m].text) : t[m].text[j] = w
          \/ t[m].href = w

\* :first-of-type
FirstOfType(t, k) ==
    \A j \in 1..(k - 1) :
        Parent(t, j) = Parent(t, k) => t[j].tag # t[k].tag

\* ChapterTitleSelector, also the selector of AdvancedPattern:
\* h4[style*=center]:first-of-type, p[style*=center]:first-of-type,
\* p>span[style*='800']
MatchesTitleSelector(t, k) ==
    \/ t[k].tag = "h4" /\ HasCenter(t[k].style) /\ FirstOfType(t, k)
    \/ t[k].tag = "p" /\ HasCenter(t[k].style) /\ FirstOfType(t, k)
    \/ /\ t[k].tag = "span" /\ Has800(t[k].style)
       /\ Parent(t, k) # 0 /\ t[Parent(t, k)].tag = "p"

\* the alternative selectors AdvancedPattern tries in debug mode
AltSelectors == <<"h4[style*='text-align: center']", "div.separator h4",
                  "div.separator span h4", "h4">>

MatchesAlt(sel, t, k) ==
    /\ t[k].tag = "h4"
    /\ CASE sel = 1 -> HasTextAlignCenter(t[k].style)
         [] sel = 2 -> \E a \in Ancestors(t, k) :
                           t[a].tag = "div" /\ t[a].cls = "separator"
         [] sel = 3 -> \E a \in Ancestors(t, k) :
                           /\ t[a].tag = "span"
                           /\ \E b \in Ancestors(t, a) :
                                 t[b].tag = "div" /\ t[b].cls = "separator"
         [] OTHER -> TRUE

\* Find(selector).First() below the root: position of the first descendant
\* of the root that matches, 0 for an empty selection
FirstTitle(t) ==
    LET m == {k \in 2..Len(t) : MatchesTitleSelector(t, k)}
    IN  IF m = {} THEN 0 ELSE Min(m)

RECURSIVE FirstAltFrom(_, _)
\* the loop over the alternative selectors: the first match of the first
\* selector that matches at all
FirstAltFrom(t, sel) ==
    IF sel > Len(AltSelectors) THEN 0
    ELSE LET m == {k \in 2..Len(t) : MatchesAlt(sel, t, k)}
         IN  IF m # {} THEN Min(m) ELSE FirstAltFrom(t, sel + 1)

\* isSameElement: same tag and same inner markup
isSameElement(ta, a, tb, b) ==
    /\ ta[a].tag = tb[b].tag
    /\ InnerHtml(ta, a) = InnerHtml(tb, b)

RECURSIVE Filter(_, _, _)
Filter(t, keep, k) ==
    IF k > Len(t) THEN <<>>
    ELSE (IF k \in keep THEN <<t[k]>> ELSE <<>>) \o Filter(t, keep, k + 1)

\* Find(...).Remove(): every node at a position of rm leaves with its subtree
RemoveSet(t, rm) ==
    Filter(t, {k \in 1..Len(t) : k \notin rm /\ Ancestors(t, k) \cap rm = {}}, 1)

RECURSIVE EachNode(_, _, _)
\* Selection.Each over a snapshot of node identities, in document order
EachNode(F(_, _), ids, t) ==
    IF ids = <<>> THEN t
    ELSE EachNode(F, Tail(ids), F(t, Head(ids)))

RECURSIVE IdsIn(_, _, _)
\* identities of the nodes at the positions of ps, in document order
IdsIn(t, ps, k) ==
    IF k > Len(t) THEN <<>>
    ELSE (IF k \in ps THEN <<t[k].id>> ELSE <<>>) \o IdsIn(t, ps, k + 1)

(***************************************************************************)
(* Extraction patterns (DefaultPatterns).                                  *)
(***************************************************************************)
NotFound == [content |-> <<>>, found |-> FALSE]

\* one round of "Remove all elements that come before the title element":
\* el is kept when it has the title's markup, contains a selector match or
\* has the markup of an ancestor of the title; a node that left the tree
\* with an ancestor changes nothing
RemoveBeforeTitle(titleId, t, id) ==
    LET pos == PosOf(t, id)
        tpos == PosOf(t, titleId)
    IN  IF pos = 0 THEN t
        ELSE IF \/ isSameElement(t, pos, t, tpos)
                \/ \E m \in Desc(t, pos) : MatchesTitleSelector(t, m)
             THEN t
             ELSE IF \E a \in Ancestors(t, tpos) : isSameElement(t, a, t, pos)
                  THEN t
                  ELSE RemoveAt(t, pos)

\* "Try a different approach to find the title": the first element whose
\* inner markup contains the inner markup of the title
FirstContaining(t, title) ==
    LET m == {k \in 2..Len(t) :
                \E j \in {k} \cup Desc(t, k) :
                    InnerHtml(t, j) = InnerHtml(t, title)}
    IN  IF m = {} THEN 0 ELSE Min(m)

\* position of the container AdvancedPattern clones: the closest ancestor
\* div.post-body / div.post-content, else the closest ancestor div, else body
ParentDiv(t, title) ==
    LET post == {a \in Ancestors(t, title) :
                    t[a].tag = "div" /\ t[a].cls \in {"post-body", "post-content"}}
        divs == {a \in Ancestors(t, title) : t[a].tag = "div"}
    IN  IF post # {} THEN Max(post)
        ELSE IF divs # {} THEN Max(divs)
        ELSE 1

\* the title element AdvancedPattern finds below the root of t
FindTitle(t, dbg) ==
    IF FirstTitle(t) # 0 THEN FirstTitle(t)
    ELSE IF dbg THEN FirstAltFrom(t, 1)
    ELSE 0

\* position in the clone at which AdvancedPattern cuts (titleIndex)
TitleIndex(clone, clonedTitle, dbg) ==
    LET same == {k \in 2..Len(clone) : isSameElement(clone, k, clone, clonedTitle)}
    IN  IF same # {} THEN Min(same)
        ELSE IF dbg THEN FirstContaining(clone, clonedTitle)
        ELSE 0

\* AdvancedPattern.Extract
AdvancedExtract(t, dbg) ==
    LET title == FindTitle(t, dbg)
    IN  IF title = 0 THEN NotFound
        ELSE
        LET clone == WithIds(Clone(t, ParentDiv(t, title)))
            clonedTitle == FindTitle(clone, dbg)
        IN  IF clonedTitle = 0 THEN NotFound
            ELSE
            LET titleIndex == TitleIndex(clone, clonedTitle, dbg)
            IN  IF titleIndex = 0 THEN NotFound
                ELSE
                LET before == IdsIn(clone, 2..(titleIndex - 1), 1)
                    cut == EachNode(LAMBDA tr, id :
                                       RemoveBeforeTitle(clone[clonedTitle].id, tr, id),
                                    before, clone)
                IN  [content |-> InnerOf(cut), found |-> TRUE]

\* FallbackPattern.Extract
FallbackExtract(t, dbg) ==
    LET main == {k \in 2..Len(t) : t[k].cls = "post-body"}
    IN  IF main = {} THEN NotFound
        ELSE
        LET mainDoc == NewDocument(InnerOf(Clone(t, Min(main))))
            nav == {k \in 2..Len(mainDoc) :
                       mainDoc[k].cls \in {"post-header", "post-footer", "post-bottom"}}
        IN  [content |-> InnerOf(RemoveSet(mainDoc, nav)), found |-> TRUE]

\* the patterns with the catch-all first
DefaultPatternsFallbackFirst == <<"FallbackPattern", "AdvancedPattern">>

\* DefaultPatterns: the patterns in the order in which they are tried
DefaultPatterns == <<"AdvancedPattern", "FallbackPattern">>

\* pattern.Extract
Extract(name, t, dbg) ==
    IF name = "AdvancedPattern" THEN AdvancedExtract(t, dbg)
    ELSE FallbackExtract(t, dbg)

(***************************************************************************)
(* Pages the source site may serve: a body, optionally a container div,    *)
(* and up to MaxBlocks blocks of the markup shapes the code looks for.     *)
(***************************************************************************)
P(style, text) == <<N("p", 0, "", style, text, "", "")>>

Blocks == {
    <<N("h4", 0, "", StyleCenterSp, <<"Title">>, "", "")>>,
    <<N("h4", 0, "", "", <<"Title">>, "", "")>>,
    P(StyleCenterSp, <<"Title">>),
    P("", <<"Title">>),
    <<N("div", 0, "", "", <<>>, "", ""),
      N("p", 1, "", StyleCenter, <<"Title">>, "", "")>>,
    <<N("p", 0, "", "", <<>>, "", ""),
      N("span", 1, "", Style800, <<"Part 2">>, "", "")>>,
    <<N("div", 0, "", "", <<>>, "", ""),
      N("b", 1, "", "", <<"part 3">>, "", "")>>,
    <<N("p", 0, "", "", <<>>, "", ""),
      N("span", 1, "", "", <<>>, "", ""),
      N("b", 2, "", "", <<"Part 2">>, "", "")>>,
    <<N("p", 0, "", "", <<"text">>, "", ""),
      N("span", 1, "", Style800, <<"Part 2">>, "", "")>>,
    P("", <<"text">>),
    <<[N("div", 0, "", "", <<"text">>, "", "") EXCEPT !.attrs = {"align"}]>>,
    <<N("p", 0, "", "", <<>>, "", ""),
      [N("img", 1, "", "", <<>>, "img/a.png", "") EXCEPT !.attrs = {"width", "align"}]>>,
    <<N("p", 0, "", "", <<>>, "", ""),
      N("img", 1, "", "", <<>>, "../b.png", "")>>,
    <<N("div", 0, "separator", StyleCenter, <<>>, "", ""),
      N("a", 1, "", "", <<>>, "", "http://h/d.jpg"),
      N("img", 2, "", "", <<>>, "http://h/c.png", "")>>,
    <<N("div", 0, "post-footer", "", <<>>, "", ""),
      N("p", 1, "", "", <<"text">>, "", "")>>,
    <<N("div", 0, "", StyleCenterSp, <<>>, "", ""),
      N("p", 1, "", StyleCenterSp, <<"text">>, "", "")>>,
    P(StyleCenter, <<"previous", "next">>),
    <<N("div", 0, "", StyleCenterSp, <<"patreon">>, "", "")>>,
    P("", <<"ws">>),
    <<N("div", 0, "sharethis-inline-reaction-buttons", "", <<>>, "", "")>>,
    P("", <<"blogurl">>)
}

\* the containers a post may be wrapped in: none, div.post-body, a plain div
Wrappers == {"none", "post-body", "div"}

RECURSIVE Flatten(_, _)
\* the blocks of bs one after the other, at depth d
Flatten(bs, d) ==
    IF bs = <<>> THEN <<>>
    ELSE [j \in 1..Len(Head(bs)) |-> [Head(bs)[j] EXCEPT !.d = @ + d]]
         \o Flatten(Tail(bs), d)

MakePage(w, bs) ==
    IF w = "none" THEN <<BodyNode>> \o Flatten(bs, 1)
    ELSE <<BodyNode, N("div", 1, IF w = "div" THEN "" ELSE w, "", <<>>, "", "")>>
         \o Flatten(bs, 2)

Pages ==
    {MakePage(w, bs) : w \in Wrappers,
                       bs \in UNION {[1..n -> Blocks] : n \in 0..MaxBlocks}}

(***************************************************************************)
(* The transforms of Scraper.ExtractContent.                               *)
(***************************************************************************)
Positions(t) == 2..Len(t)

\* removeEmptyElements that looks at the text only
removeEmptyElementsTextOnly(t) ==
    RemoveSet(t, {k \in Positions(t) :
                    /\ t[k].tag \in {"p", "div", "span", "h3", "h4"}
                    /\ IsBlank(TextOf(t, k))})

\* removeEmptyElements: p, div, span and headings without text and image
removeEmptyElements(t) ==
    RemoveSet(t, {k \in Positions(t) :
                    /\ t[k].tag \in {"p", "div", "span", "h3", "h4"}
                    /\ IsBlank(TextOf(t, k))
                    /\ ~HasImg(t, k)})

\* removeRedundantElements, first half: the sharethis widget
removeShareThis(t) ==
    RemoveSet(t, {k \in Positions(t) :
                    t[k].cls = "sharethis-inline-reaction-buttons"})

\* removeRedundantElements, second half: the first match of
\* ChapterTitleSelector
removeFirstChapterTitle(t) ==
    IF FirstTitle(t) # 0 THEN RemoveAt(t, FirstTitle(t)) ELSE t

removeRedundantElements(t) == removeFirstChapterTitle(removeShareThis(t))

\* the text with the decorative characters replaced by nothing and trimmed
\* equals, case-insensitively, "seireitranslations.blogspot.com"
IsBlogURL(txt) ==
    SelectSeq(txt, LAMBDA w : w \notin SpaceTokens \cup {"deco"}) = <<"blogurl">>

\* removeBlogURLEntries
removeBlogURLEntries(t) ==
    RemoveSet(t, {k \in Positions(t) :
                    t[k].tag \in {"p", "div"} /\ IsBlogURL(TextOf(t, k))})

\* <h3>text</h3>
H3(txt) == <<N("h3", 0, "", "", txt, "", "")>>

\* convertPartHeadings, first loop: p span[style*='font-weight: 800'] whose
\* parent is the paragraph
PartSpan(t, id) ==
    LET k == PosOf(t, id)
    IN  IF k = 0 \/ ~IsPartText(TextOf(t, k)) THEN t
        ELSE IF t[Parent(t, k)].tag = "p"
             THEN ReplaceAt(t, Parent(t, k), H3(TextOf(t, k)))
             ELSE t

\* convertPartHeadings, second loop: div > b
PartDivB(t, id) ==
    LET k == PosOf(t, id)
    IN  IF k = 0 \/ ~IsPartText(TextOf(t, k)) THEN t
        ELSE ReplaceAt(t, Parent(t, k), H3(TextOf(t, k)))

\* convertPartHeadings, third loop: p > span > b
PartPSpanB(t, id) ==
    LET k == PosOf(t, id)
    IN  IF k = 0 \/ ~IsPartText(TextOf(t, k)) THEN t
        ELSE ReplaceAt(t, Parent(t, Parent(t, k)), H3(TextOf(t, k)))

convertPartHeadings(t0) ==
    LET t1 == WithIds(t0)
        spans == {k \in Positions(t1) :
                    /\ t1[k].tag = "span" /\ HasFontWeight800(t1[k].style)
                    /\ \E a \in Ancestors(t1, k) : t1[a].tag = "p"}
        t2 == WithIds(EachNode(PartSpan, IdsIn(t1, spans, 1), t1))
        divb == {k \in Positions(t2) :
                    t2[k].tag = "b" /\ t2[Parent(t2, k)].tag = "div"}
        t3 == WithIds(EachNode(PartDivB, IdsIn(t2, divb, 1), t2))
        psb == {k \in Positions(t3) :
                    /\ t3[k].tag = "b" /\ t3[Parent(t3, k)].tag = "span"
                    /\ Parent(t3, Parent(t3, k)) # 0
                    /\ t3[Parent(t3, Parent(t3, k))].tag = "p"}
    IN  EachNode(PartPSpanB, IdsIn(t3, psb, 1), t3)

\* the keyword rule of processNavigationElements
IsNavigation(t, k) ==
    \/ InnerContains(t, k, "patreon")
    \/ InnerContains(t, k, "previous") /\ InnerContains(t, k, "next")
    \/ InnerContains(t, k, "previous") /\ InnerContains(t, k, "toc")
    \/ InnerContains(t, k, "next") /\ InnerContains(t, k, "toc")

\* processNavigationElements, first half: centered p and div with keywords
removeNavigation(t) ==
    RemoveSet(t, {k \in Positions(t) :
                    /\ t[k].tag \in {"p", "div"}
                    /\ HasCenter(t[k].style)
                    /\ IsNavigation(t, k)})

\* the n largest elements of a set of positions
RECURSIVE LastN(_, _)
LastN(S, n) == IF n = 0 \/ S = {} THEN {} ELSE {Max(S)} \cup LastN(S \ {Max(S)}, n - 1)

\* processNavigationElements, second half: the last three
\* p[style*='text-align: center']
removeLastThreeCentered(t) ==
    LET c == {k \in Positions(t) :
                t[k].tag = "p" /\ HasTextAlignCenter(t[k].style)}
    IN  IF Cardinality(c) >= 3 THEN RemoveSet(t, LastN(c, 3)) ELSE t

processNavigationElements(t) == removeLastThreeCentered(removeNavigation(t))

\* one div of convertDivsToParagraphs
DivToParagraph(t, id) ==
    LET k == PosOf(t, id)
    IN  IF k = 0 THEN t
        ELSE IF t[k].cls \in {"sharethis-inline-reaction-buttons", "post-header",
                              "post-footer", "post-bottom"}
             THEN t
        ELSE IF /\ IsBlank(t[k].text)
                /\ Desc(t, k) = {k + 1}
                /\ t[k + 1].tag = "br"
             THEN RemoveAt(t, k)
        ELSE IF /\ ~IsBlank(TextOf(t, k))
                /\ \A m \in Desc(t, k) : t[m].tag \notin {"div", "p", "h3", "h4"}
             THEN [j \in 1..Len(t) |->
                     IF j = k THEN [N("p", t[k].d, "", "", t[k].text, "", "")
                                       EXCEPT !.id = 0]
                     ELSE IF j \in Desc(t, k) THEN [t[j] EXCEPT !.id = 0]
                     ELSE t[j]]
        ELSE t

\* convertDivsToParagraphs
convertDivsToParagraphs(t0) ==
    LET t1 == WithIds(t0)
    IN  EachNode(DivToParagraph,
                 IdsIn(t1, {k \in Positions(t1) : t1[k].tag = "div"}, 1), t1)

(***************************************************************************)
(* HTMLProcessor.CleanHTML.                                                *)
(***************************************************************************)
PresentationAttrs == {"align", "width", "height", "border", "bgcolor", "color"}

\* the attributes removed, the inline styles left in place
stripAttributesOnly(t) ==
    [k \in 1..Len(t) |->
        IF t[k].tag = "img" \/ k = 1 THEN t[k]
        ELSE [t[k] EXCEPT !.attrs = @ \ {"align", "width", "height", "border",
                                         "bgcolor", "color"}]]

\* "Remove inline styles from all elements except images" and "Remove other
\* unnecessary attributes"
stripPresentation(t) ==
    [k \in 1..Len(t) |->
        IF t[k].tag = "img" \/ k = 1 THEN t[k]
        ELSE [t[k] EXCEPT !.style = "", !.attrs = @ \ PresentationAttrs]]

\* "Remove empty paragraphs": inner markup "" or "&nbsp;" after trimming
removeEmptyParagraphs(t) ==
    RemoveSet(t, {k \in Positions(t) :
                    /\ t[k].tag = "p"
                    /\ Desc(t, k) = {}
                    /\ SelectSeq(t[k].text, LAMBDA w : w \notin {"ws", "sp"})
                          \in {<<>>, <<"nbsp">>}})

\* the part of CleanHTML before go-readability
initialClean(t) == removeEmptyParagraphs(stripPresentation(removeShareThis(t)))

\* outcomes of readability.FromReader, a library outside this repository:
\* an error, the content unchanged, or the content without its images
ReadabilityOutcomes == {"error", "keep", "dropimages"}

readability(t, outcome) ==
    IF outcome = "dropimages"
    THEN RemoveSet(t, {k \in Positions(t) : t[k].tag = "img"})
    ELSE t

RECURSIVE reinsertImages(_, _)
\* "Check if images were preserved, if not, reinsert them": an image whose
\* source is in no img of the readability output is appended to the body
reinsertImages(t, srcs) ==
    IF srcs = <<>> THEN t
    ELSE LET s == Head(srcs)
             present == \E k \in Positions(t) : t[k].tag = "img" /\ t[k].src = s
         IN  reinsertImages(
                 IF ~present /\ s # ""
                 THEN t \o <<N("p", 1, "", "", <<>>, "", ""),
                             N("img", 2, "", "", <<>>, s, "")>>
                 ELSE t,
                 Tail(srcs))

RECURSIVE SrcsOf(_, _)
\* the sources of the images of a document, in document order
SrcsOf(t, k) ==
    IF k > Len(t) THEN <<>>
    ELSE (IF t[k].tag = "img" THEN <<t[k].src>> ELSE <<>>) \o SrcsOf(t, k + 1)

\* "Remove excessive whitespace": a run of white space becomes one space
collapseWhitespace(t) ==
    [k \in 1..Len(t) |->
        [t[k] EXCEPT !.text = [j \in 1..Len(@) |-> IF @[j] = "ws" THEN "sp" ELSE @[j]]]]

\* the part of CleanHTML from go-readability on
finalClean(t, outcome) ==
    collapseWhitespace(
        IF outcome = "error" THEN t
        ELSE reinsertImages(readability(t, outcome), SrcsOf(t, 1)))

(***************************************************************************)
(* ImageProcessor.ProcessImages.                                           *)
(***************************************************************************)
\* the URL of the page being processed and the paths go-epub gives to the
\* images it stores
PageURL == "http://blog/2023/ch.html"

\* strings.HasPrefix(u, "http://") || strings.HasPrefix(u, "https://")
IsAbsolute(u) == u \in AbsURLs \cup {"http://blog/2023/img/a.png", "http://blog/b.png",
                                     "http://blog/images/fullimg", "http://blog/images/image"}

\* the path Epub.AddImage returns for a file name with the given prefix
\* (the time stamp and the index of the name are left out)
InternalPath(prefix) == IF prefix = "fullimg" THEN "../images/fullimg"
                        ELSE "../images/image"

\* strings.HasPrefix(src, "../")
HasDotDotPrefix(u) == u \in {"../b.png", "../images/fullimg", "../images/image"}

\* ImageProcessor.resolveURL: a URL that does not start with http:// or
\* https:// is resolved against the page URL
resolveURL(u, pageURL) ==
    IF IsAbsolute(u) THEN u
    ELSE CASE u = "img/a.png" -> "http://blog/2023/img/a.png"
           [] u = "../b.png" -> "http://blog/b.png"
           [] u = "../images/fullimg" -> "http://blog/images/fullimg"
           [] u = "../images/image" -> "http://blog/images/image"
           [] OTHER -> pageURL

\* the link target names an image file: .jpg, .jpeg, .png or .gif
IsImageURL(u) == u \in RelURLs \cup AbsURLs

StrippedImgAttrs == {"border", "data-original-height", "data-original-width",
                     "height", "width"}

\* the image rewritten to the stored asset
Localised(n, prefix) ==
    [n EXCEPT !.src = InternalPath(prefix),
              !.attrs = @ \ StrippedImgAttrs,
              !.style = StyleResponsive]

\* outcomes of downloading and saving one image and of Epub.AddImage for an
\* unused file name
ImageOutcomes == {"ok", "fail"}

\* readings of time.Now().UnixNano(): the wall clock, which two images may
\* read alike
ClockValues == {0, 1}

\* filepath.Ext of the resolved URL, ".jpg" when it has none
ExtOf(u) ==
    IF u \in {"http://h/c.png", "http://blog/2023/img/a.png", "http://blog/b.png"}
    THEN ".png" ELSE ".jpg"

\* fmt.Sprintf("%s_%d_%d%s", prefix, time.Now().UnixNano(), i, imgExt)
ImgFilename(prefix, now, n, ext) ==
    [prefix |-> prefix, now |-> now, i |-> n, ext |-> ext]

\* the images the book holds: the references whose AddImage succeeded
Registered(log) == SelectSeq(log, LAMBDA e : e.res = "ok")

\* file names the book already uses
UsedNames(log) == {Registered(log)[j].name : j \in 1..Len(Registered(log))}

\* an AddImage that takes a file name the book already uses
AddImageAcceptsUsedName(log, name, outcome) == outcome

\* Epub.AddImage accepts a file name once only: a name the book already
\* uses is an error
AddImage(log, name, outcome) ==
    IF outcome = "ok" /\ name \notin UsedNames(log) THEN "ok" ELSE "fail"

\* the record of one image reference: original src, resolved URL, file name
\* and whether the image was stored
Reference(src, url, name, res) ==
    [src |-> src, url |-> url, name |-> name, res |-> res]

RECURSIVE EachIndexed(_, _, _, _)
\* Selection.Each with the index of the element in the selection
EachIndexed(F(_, _, _), ids, n, t) ==
    IF ids = <<>> THEN t
    ELSE EachIndexed(F, Tail(ids), n + 1, F(t, Head(ids), n))

\* LinkImage that fetches the source of the inline image instead of the
\* target of the link
LinkImageOwnSource(out, pageURL, s, id, n) ==
    LET t == s.t
        k == PosOf(t, id)
    IN  IF k = 0 \/ ~HasImg(t, k) THEN s
        ELSE IF t[k].href = "" \/ ~IsImageURL(t[k].href) THEN s
        ELSE
        LET first == Min({m \in Desc(t, k) : t[m].tag = "img"})
            url == resolveURL(t[first].src, pageURL)
            name == ImgFilename("fullimg", out[n + 1].now, n, ExtOf(url))
            res == AddImage(s.log, name, out[n + 1].res)
        IN  [t |-> IF res = "ok"
                   THEN ReplaceAt(t, k, <<[Localised(t[first], "fullimg")
                                             EXCEPT !.d = 0, !.id = 0]>>)
                   ELSE t,
             log |-> Append(s.log, Reference(t[first].src, url, name, res))]

\* one link of "Process full-size images from links first"; s holds the
\* tree and the log, out[n + 1] the outcome and the clock of this link
LinkImage(out, pageURL, s, id, n) ==
    LET t == s.t
        k == PosOf(t, id)
    IN  IF k = 0 \/ ~HasImg(t, k) THEN s
        ELSE IF t[k].href = "" \/ ~IsImageURL(t[k].href) THEN s
        ELSE
        LET url == resolveURL(t[k].href, pageURL)
            name == ImgFilename("fullimg", out[n + 1].now, n, ExtOf(url))
            res == AddImage(s.log, name, out[n + 1].res)
            first == Min({m \in Desc(t, k) : t[m].tag = "img"})
        IN  [t |-> IF res = "ok"
                   THEN ReplaceAt(t, k, <<[Localised(t[first], "fullimg")
                                             EXCEPT !.d = 0, !.id = 0]>>)
                   ELSE t,
             log |-> Append(s.log, Reference(t[k].href, url, name, res))]

\* one image of "Process any remaining images"
PlainImage(out, pageURL, s, id, n) ==
    LET t == s.t
        k == PosOf(t, id)
    IN  IF k = 0 \/ HasDotDotPrefix(t[k].src) THEN s
        ELSE IF resolveURL(t[k].src, pageURL) = "" THEN s
        ELSE
        LET url == resolveURL(t[k].src, pageURL)
            name == ImgFilename("image", out[n + 1].now, n, ExtOf(url))
            res == AddImage(s.log, name, out[n + 1].res)
        IN  [t |-> IF res = "ok" THEN [t EXCEPT ![k] = Localised(@, "image")]
                   ELSE t,
             log |-> Append(s.log, Reference(t[k].src, url, name, res))]

\* identities of the elements with the given tag, in document order
TagIds(t, tag) == IdsIn(t, {k \in Positions(t) : t[k].tag = tag}, 1)

\* the first loop of ProcessImages; out[n] is the outcome for the n-th link
linkImages(t0, log, out, pageURL) ==
    LET t1 == WithIds(t0)
    IN  EachIndexed(LAMBDA s, id, n : LinkImage(out, pageURL, s, id, n),
                    TagIds(t1, "a"), 0, [t |-> t1, log |-> log])

\* the second loop of ProcessImages; out[n] is the outcome for the n-th image
plainImages(t0, log, out, pageURL) ==
    LET t1 == WithIds(t0)
    IN  EachIndexed(LAMBDA s, id, n : PlainImage(out, pageURL, s, id, n),
                    TagIds(t1, "img"), 0, [t |-> t1, log |-> log])

\* what the downloader, the file system and the clock do for n images
Outcomes(n) == [1..n -> [res : ImageOutcomes, now : ClockValues]]

\* logs an earlier fragment of the run may have left: none, or one image
EarlierLogs ==
    {<<>>,
     <<Reference("img/a.png", "http://blog/2023/img/a.png",
                 ImgFilename("image", 0, 0, ".png"), "ok")>>}

CountTag(t, tag) == Cardinality({k \in Positions(t) : t[k].tag = tag})

(***************************************************************************)
(* PageSpec: the processing of one entry's page.                           *)
(***************************************************************************)
PageInit ==
    /\ pc = "loop"
    /\ exitCode = -1
    /\ debug \in BOOLEAN
    /\ listFile = <<>>
    /\ urlEntries = <<>>
    /\ i = 0
    /\ currentChapter = <<>>
    /\ chapterIndex = 1
    /\ addCalls = <<>>
    /\ debugFiles = [k \in SafeTitles |-> NoFile]
    /\ trace = <<>>
    /\ imageWarned = FALSE
    /\ ppc = "fetch"
    /\ page = <<>>
    /\ doc = <<>>
    /\ tried = <<>>
    /\ found = FALSE
    /\ passes = <<>>
    /\ net = "none"
    /\ imgLog \in EarlierLogs
    /\ AuxIdle

\* Scraper.fetchAndParseHTML: http.Get, the status check and the parse
FetchPage ==
    /\ ppc = "fetch"
    /\ \E outcome \in {"transport", "status", "parse", "ok"} :
        /\ net' = outcome
        /\ IF outcome = "ok"
           THEN /\ page' \in Pages
                /\ ppc' = "locate"
           ELSE /\ page' = page
                /\ ppc' = "failed"
    /\ timeline' = Append(timeline, "fetch")
    /\ UNCHANGED <<listVars, dlVars, execVars, debug, imgLog, doc, tried, found,
                   passes>>

\* one round of the loop of extractContentWithPatterns
TryPattern ==
    /\ ppc = "locate"
    /\ ~found
    /\ Len(tried) < Len(DefaultPatterns)
    /\ LET name == DefaultPatterns[Len(tried) + 1]
           r == Extract(name, page, debug)
       IN  /\ tried' = Append(tried, name)
           /\ found' = r.found
           /\ IF r.found
              THEN doc' = NewDocument(r.content) /\ ppc' = "removeEmpty"
              ELSE UNCHANGED <<doc, ppc>>
    /\ UNCHANGED <<auxVars, execVars, debug, imgLog, page, passes, net>>

\* extractContentWithPatterns: no pattern found the content
LocateFails ==
    /\ ppc = "locate"
    /\ ~found
    /\ Len(tried) = Len(DefaultPatterns)
    /\ ppc' = "failed"
    /\ net' = "notfound"
    /\ UNCHANGED <<auxVars, execVars, debug, imgLog, page, doc, tried, found, passes>>

\* one transform of the content document
Transform(to, names, newDoc) ==
    /\ ppc' = to
    /\ doc' = newDoc
    /\ passes' = passes \o names
    /\ UNCHANGED <<auxVars, execVars, debug, imgLog, page, tried, found, net>>

RemoveEmptyElements ==
    /\ ppc = "removeEmpty"
    /\ Transform("removeRedundant", <<"empty">>, removeEmptyElements(doc))

RemoveRedundantElements ==
    /\ ppc = "removeRedundant"
    /\ Transform("removeBlogURL", <<"widget", "title">>,
                 removeRedundantElements(doc))

RemoveBlogURLEntries ==
    /\ ppc = "removeBlogURL"
    /\ Transform("convertPart", <<"domain">>, removeBlogURLEntries(doc))

ConvertPartHeadings ==
    /\ ppc = "convertPart"
    /\ Transform("navigation", <<"part">>, convertPartHeadings(doc))

\* the two halves of processNavigationElements the other way round
ProcessNavigationElementsReversed ==
    /\ ppc = "navigation"
    /\ Transform("divs", <<"lastthree", "navigation">>,
                 removeNavigation(removeLastThreeCentered(doc)))

ProcessNavigationElements ==
    /\ ppc = "navigation"
    /\ Transform("divs", <<"navigation", "lastthree">>,
                 processNavigationElements(doc))

\* convertDivsToParagraphs, the serialisation, the delay and the return of
\* ExtractContent
ConvertDivsToParagraphs ==
    /\ ppc = "divs"
    /\ ppc' = "clean"
    /\ doc' = convertDivsToParagraphs(doc)
    /\ passes' = Append(passes, "divs")
    /\ timeline' = Append(timeline, "sleep")
    /\ UNCHANGED <<listVars, dlVars, execVars, debug, imgLog, page, tried, found,
                   net>>

\* CleanHTML up to initialCleanedHtml
\* (the debug-mode replacement of the input by a debug file needs the
\* widget's class name in the input, which removeRedundantElements has
\* removed from every page of Pages)
CleanInitial ==
    /\ ppc = "clean"
    /\ Transform("readability", <<"widget", "attributes", "emptyparagraphs">>,
                 initialClean(doc))

\* CleanHTML from go-readability to its return
CleanFinal ==
    /\ ppc = "readability"
    /\ \E outcome \in ReadabilityOutcomes :
        Transform("linkimages", <<"readability", "whitespace">>,
                  finalClean(doc, outcome))

\* one loop of ProcessImages with its result r
ImageLoop(to, names, r) ==
    /\ ppc' = to
    /\ doc' = r.t
    /\ imgLog' = r.log
    /\ passes' = passes \o names
    /\ UNCHANGED <<auxVars, execVars, debug, page, tried, found, net>>

\* ProcessImages, the loop over the links
ProcessLinkImages ==
    /\ ppc = "linkimages"
    /\ \E out \in Outcomes(CountTag(doc, "a")) :
        ImageLoop("images", <<"images">>, linkImages(doc, imgLog, out, PageURL))

\* ProcessImages, the loop over the images, and its return
ProcessPlainImages ==
    /\ ppc = "images"
    /\ \E out \in Outcomes(CountTag(doc, "img")) :
        ImageLoop("assemble", <<>>, plainImages(doc, imgLog, out, PageURL))

\* the fragment is appended to the chapter
Assemble ==
    /\ ppc = "assemble"
    /\ ppc' = "appended"
    /\ UNCHANGED <<auxVars, execVars, debug, imgLog, page, doc, tried, found, passes, net>>

PageNext ==
    \/ FetchPage
    \/ TryPattern
    \/ LocateFails
    \/ RemoveEmptyElements
    \/ RemoveRedundantElements
    \/ RemoveBlogURLEntries
    \/ ConvertPartHeadings
    \/ ProcessNavigationElements
    \/ ConvertDivsToParagraphs
    \/ CleanInitial
    \/ CleanFinal
    \/ ProcessLinkImages
    \/ ProcessPlainImages
    \/ Assemble

PageSpec == PageInit /\ [][PageNext]_vars

(***************************************************************************)
(* ListSpec: utils.ReadURLList on the content of a URL list file.          *)
(***************************************************************************)
MaxData == 7

\* the characters of a list file: a letter, a blank, a line break, a colon
Chars == {"a", " ", "\n", ":"}

\* unicode.IsSpace
IsSpace(c) == c \in {" ", "\n"}

RECURSIVE TrimLeft(_)
TrimLeft(s) ==
    IF s # <<>> /\ IsSpace(Head(s)) THEN TrimLeft(Tail(s)) ELSE s

RECURSIVE TrimRight(_)
TrimRight(s) ==
    IF s # <<>> /\ IsSpace(s[Len(s)]) THEN TrimRight(SubSeq(s, 1, Len(s) - 1))
    ELSE s

\* a TrimSpace that leaves the string as it is
TrimNothing(s) == s

\* strings.TrimSpace
TrimSpace(s) == TrimRight(TrimLeft(s))

\* strings.Index: the first position at which sep occurs in s, 0 if none
Index(s, sep) ==
    LET at == {j \in 1..(Len(s) - Len(sep) + 1) :
                  SubSeq(s, j, j + Len(sep) - 1) = sep}
    IN  IF at = {} THEN 0 ELSE Min(at)

RECURSIVE Split(_, _)
\* strings.Split for a non-empty separator
Split(s, sep) ==
    IF Index(s, sep) = 0 THEN <<s>>
    ELSE <<SubSeq(s, 1, Index(s, sep) - 1)>>
         \o Split(SubSeq(s, Index(s, sep) + Len(sep), Len(s)), sep)

LineBreak == <<"\n">>
Separator == <<":", ":">>

\* a line with two fields or more is taken
AtLeastTwoParts(parts) == Len(parts) >= 2

\* len(parts) != 2 is an invalid line
TwoParts(parts) == Len(parts) = 2

RECURSIVE ParseLines(_, _)
\* the loop of ReadURLList over the lines; r holds the entries and the
\* lines reported as invalid
ParseLines(lines, r) ==
    IF lines = <<>> THEN r
    ELSE LET line == TrimSpace(Head(lines))
             parts == Split(line, Separator)
         IN  ParseLines(Tail(lines),
                 IF line = <<>> THEN r
                 ELSE IF ~TwoParts(parts)
                      THEN [r EXCEPT !.invalid = Append(@, line)]
                      ELSE [r EXCEPT !.list =
                               Append(@, [Title |-> TrimSpace(parts[1]),
                                          URL |-> TrimSpace(parts[2])])])

\* ReadURLList after the file was read
ParseURLList(content) ==
    ParseLines(Split(TrimSpace(content), LineBreak),
               [list |-> <<>>, invalid |-> <<>>])

\* the list file is missing or holds any characters
ListInit ==
    /\ pc = "parse"
    /\ exitCode = -1
    /\ debug = FALSE
    /\ listFile = <<>>
    /\ urlEntries = <<>>
    /\ i = 0
    /\ currentChapter = <<>>
    /\ chapterIndex = 1
    /\ addCalls = <<>>
    /\ debugFiles = [k \in SafeTitles |-> NoFile]
    /\ trace = <<>>
    /\ imageWarned = FALSE
    /\ ppc = "idle"
    /\ page = <<>>
    /\ doc = <<>>
    /\ tried = <<>>
    /\ found = FALSE
    /\ passes = <<>>
    /\ net = "none"
    /\ imgLog = <<>>
    /\ lpc \in {"missing", "readable"}
    /\ data \in UNION {[1..n -> Chars] : n \in 0..MaxData}
    /\ lpc = "missing" => data = <<>>
    /\ entries = [list |-> <<>>, invalid |-> <<>>]
    /\ dpc = 0
    /\ cache = [f \in CacheNames |-> NoBytes]
    /\ requests = <<>>
    /\ dlRet = NoCall
    /\ timeline = <<>>

\* utils.ReadURLList
ReadURLListFile ==
    /\ lpc \in {"missing", "readable"}
    /\ IF lpc = "missing"
       THEN lpc' = "error" /\ UNCHANGED entries
       ELSE lpc' = "done" /\ entries' = ParseURLList(data)
    /\ UNCHANGED <<execVars, debug, pageVars, data, dlVars, timeline>>

ListNext == ReadURLListFile

ListSpec == ListInit /\ [][ListNext]_vars

(***************************************************************************)
(* Downloader.DownloadFile on a temp directory that may hold files of an   *)
(* earlier run.                                                            *)
(***************************************************************************)
MaxCalls == 2

\* the callers pass a URL they have checked to be non-empty
URLs == {"u1", "u2"}

Bodies == {"b1", "b2"}

\* client.Get fails, the status is not 200, io.Copy fails, or a 200
\* response with a body that may be empty
Responses ==
    {[kind |-> k, body |-> EmptyBody] : k \in {"transport", "status", "copy"}}
        \cup {[kind |-> "ok", body |-> b] : b \in Bodies \cup {EmptyBody}}

\* the cache is used whatever the debug setting
UseCacheAlways(dbg, filename) == filename # ""

\* d.debug && filename != ""
UseCache(dbg, filename) == dbg /\ filename # ""

\* the temp directory is empty, or holds files DownloadFile cached in an
\* earlier debug run with the same output name
DlInit ==
    /\ pc = "parse"
    /\ exitCode = -1
    /\ debug \in BOOLEAN
    /\ listFile = <<>>
    /\ urlEntries = <<>>
    /\ i = 0
    /\ currentChapter = <<>>
    /\ chapterIndex = 1
    /\ addCalls = <<>>
    /\ debugFiles = [k \in SafeTitles |-> NoFile]
    /\ trace = <<>>
    /\ imageWarned = FALSE
    /\ ppc = "idle"
    /\ page = <<>>
    /\ doc = <<>>
    /\ tried = <<>>
    /\ found = FALSE
    /\ passes = <<>>
    /\ net = "none"
    /\ imgLog = <<>>
    /\ lpc = "idle"
    /\ data = <<>>
    /\ entries = [list |-> <<>>, invalid |-> <<>>]
    /\ dpc = 0
    /\ cache \in [CacheNames -> {NoBytes} \cup Bodies]
    /\ requests = <<>>
    /\ dlRet = NoCall
    /\ timeline = <<>>

\* what DownloadFile returns, for the call it was given
Returned(url, filename, bytes, err, warned) ==
    [url |-> url, filename |-> filename, data |-> bytes, err |-> err,
     warned |-> warned]

\* Downloader.DownloadFile; written says whether os.WriteFile succeeds
DownloadFile ==
    /\ dpc < MaxCalls
    /\ \E url \in URLs, filename \in CacheNames \cup {""},
          resp \in Responses, written \in BOOLEAN :
        IF url = ""
        THEN /\ dlRet' = Returned(url, filename, NoBytes, "empty URL", FALSE)
             /\ UNCHANGED <<cache, requests>>
        ELSE IF UseCache(debug, filename) /\ cache[filename] # NoBytes
        THEN /\ dlRet' = Returned(url, filename, cache[filename], "none", FALSE)
             /\ UNCHANGED <<cache, requests>>
        ELSE /\ requests' = Append(requests, [url |-> url, resp |-> resp])
             /\ IF resp.kind # "ok"
                THEN /\ dlRet' = Returned(url, filename, NoBytes, resp.kind, FALSE)
                     /\ UNCHANGED cache
                ELSE IF resp.body = EmptyBody
                THEN /\ dlRet' = Returned(url, filename, NoBytes, "zero bytes", FALSE)
                     /\ UNCHANGED cache
                ELSE /\ cache' = IF UseCache(debug, filename) /\ written
                                 THEN [cache EXCEPT ![filename] = resp.body]
                                 ELSE cache
                     /\ dlRet' = Returned(url, filename, resp.body, "none",
                                          UseCache(debug, filename) /\ ~written)
    /\ dpc' = dpc + 1
    /\ UNCHANGED <<execVars, debug, pageVars, listVars, timeline>>

DlNext == DownloadFile

DlSpec == DlInit /\ [][DlNext]_vars

(***************************************************************************)
(* Vocabulary of the assembler claims.                                     *)
(***************************************************************************)
\* declared title of the k-th input entry
TitleOf(k) == urlEntries[k].Title

\* entry indices of the pieces of a chapter content
Ids(content) == [k \in 1..Len(content) |-> content[k].id]

\* indices of the entries processed without error so far, in processing order
SuccIdx ==
    LET ok == SelectSeq(trace, LAMBDA r : r.res \notin ExtractErrors)
    IN  [k \in 1..Len(ok) |-> ok[k].idx]

RECURSIVE Runs(_)
\* a sequence of entry indices cut into its maximal runs of equal titles
Runs(s) ==
    IF s = <<>> THEN <<>>
    ELSE LET r == Runs(Tail(s))
         IN  IF r # <<>> /\ TitleOf(Head(r)[1]) = TitleOf(Head(s))
             THEN <<(<<Head(s)>> \o Head(r))>> \o Tail(r)
             ELSE <<(<<Head(s)>>)>> \o r

\* the chapter runs of the input list
InputRuns == Runs([k \in 1..Len(urlEntries) |-> k])

\* entry indices of each chapter handed to AddChapter, in call order
EmittedIds == [k \in 1..Len(addCalls) |-> Ids(addCalls[k].content)]

\* titles handed to AddChapter, in call order
EmittedTitles == [k \in 1..Len(addCalls) |-> addCalls[k].title]

\* chapters assembled so far: the emitted ones and the open one
AssembledIds ==
    IF pc = "loop" /\ currentChapter # <<>>
    THEN Append(EmittedIds, Ids(currentChapter[1].Content))
    ELSE EmittedIds

\* position of the first entry of the input list that declares title t
FirstIdx(t) == CHOOSE k \in 1..Len(urlEntries) :
                  /\ TitleOf(k) = t
                  /\ \A j \in 1..(k - 1) : TitleOf(j) # t

Last(s) == s[Len(s)]

AfterLoop == pc \in {"write", "done"}

(***************************************************************************)
(* C1 -- chapter assembly merges title runs.                               *)
(***************************************************************************)
\* C1 (as stated): once the loop is over, the emitted chapters are exactly
\* the chapter runs of the input list, each holding one fragment per entry
\* of its run, in arrival order.
C1_AsStated == AfterLoop => EmittedIds = InputRuns

\* C1 (amended): the chapters assembled so far are exactly the maximal
\* equal-title runs of the successfully processed entries, each holding one
\* fragment per entry of its run, in arrival order.
C1_MergesRunsOfProcessed ==
    pc \in {"loop", "write", "done"} => AssembledIds = Runs(SuccIdx)

\* the scenario Ch1/a, Ch1/b, Ch2/c with every entry processed
C1_Witness ==
    /\ pc = "write"
    /\ listFile = <<"Ch1", "Ch1", "Ch2">>
    /\ SuccIdx = <<1, 2, 3>>
    /\ EmittedIds = <<(<<1, 2>>), (<<3>>)>>
    /\ EmittedTitles = <<"Ch1", "Ch2">>

(***************************************************************************)
(* C2 -- processing order and emission order.                              *)
(***************************************************************************)
\* C2 (as stated): entries are processed in input order and the chapters
\* are handed to AddChapter in the order in which their titles first appear
\* in the input list.
C2_AsStated ==
    /\ [k \in 1..Len(trace) |-> trace[k].idx] = [k \in 1..i |-> k]
    /\ \A p, q \in 1..Len(addCalls) :
          p < q => FirstIdx(addCalls[p].title) < FirstIdx(addCalls[q].title)

\* C2 (amended): entries are processed in input order and the titles handed
\* to AddChapter are, in order, the titles of the maximal equal-title runs
\* of the successfully processed entries; a title that reappears after a
\* different title is handed over again.
C2_EmissionFollowsProcessedRuns ==
    /\ [k \in 1..Len(trace) |-> trace[k].idx] = [k \in 1..i |-> k]
    /\ AfterLoop =>
          EmittedTitles = [k \in 1..Len(Runs(SuccIdx)) |->
                              TitleOf(Runs(SuccIdx)[k][1])]

\* a title reappears after a different title and is emitted twice
C2_Witness ==
    /\ pc = "write"
    /\ listFile = <<"Ch1", "Ch2", "Ch1">>
    /\ SuccIdx = <<1, 2, 3>>
    /\ EmittedTitles = <<"Ch1", "Ch2", "Ch1">>

(***************************************************************************)
(* C3 -- when a chapter is emitted.                                        *)
(***************************************************************************)
\* C3 (as stated): whenever the loop takes an entry whose title differs
\* from the title of the open chapter, the open chapter is emitted in that
\* very step.
C3_AsStated ==
    [][(/\ pc = "loop"
        /\ i < Len(urlEntries)
        /\ i' = i + 1
        /\ currentChapter # <<>>
        /\ TitleOf(i + 1) # currentChapter[1].Title)
       => Len(addCalls') = Len(addCalls) + 1]_vars

\* a step that hands a chapter to AddChapter
Emits == addCalls' # addCalls

\* a step that takes an entry of a title other than the open chapter's and
\* processes it successfully
TakesDistinct ==
    /\ pc = "loop"
    /\ i < Len(urlEntries)
    /\ i' = i + 1
    /\ currentChapter # <<>>
    /\ TitleOf(i + 1) # currentChapter[1].Title
    /\ Last(trace').res \notin ExtractErrors

\* a step that leaves the loop
EndsStream == pc = "loop" /\ pc' = "write"

\* C3 (amended): a chapter is emitted at most once, and exactly in the step
\* in which the next successfully processed entry has a distinct title or
\* in which the entry stream ends; an entry that is skipped emits nothing.
C3_EmittedWhenRunEnds ==
    /\ [][/\ Emits =>
              /\ currentChapter # <<>>
              /\ addCalls' = Append(addCalls, Last(addCalls'))
              /\ Last(addCalls').title = currentChapter[1].Title
              /\ Last(addCalls').content = currentChapter[1].Content
              /\ TakesDistinct \/ EndsStream
          /\ (currentChapter # <<>> /\ (TakesDistinct \/ EndsStream)) => Emits
         ]_vars
    /\ [](\A p, q \in 1..Len(addCalls) :
            p # q => \A a \in 1..Len(addCalls[p].content),
                        b \in 1..Len(addCalls[q].content) :
                        addCalls[p].content[a].id # addCalls[q].content[b].id)

\* a chapter closed by a later title and a chapter closed by the stream end
C3_Witness ==
    /\ pc = "write"
    /\ Len(addCalls) = 2
    /\ addCalls[1].at < Len(urlEntries)
    /\ addCalls[2].at = Len(urlEntries)
    /\ \E k \in 1..Len(trace) : trace[k].res \in ExtractErrors

(***************************************************************************)
(* C4 -- the last open chapter is flushed before Write.                    *)
(***************************************************************************)
\* C4: whenever Execute is at or past the call of Write, the open chapter,
\* if it has content, is the chapter of the last AddChapter call.
C4_LastChapterFlushed ==
    (AfterLoop /\ currentChapter # <<>> /\ HasContent(currentChapter[1]))
    => /\ addCalls # <<>>
       /\ Last(addCalls).title = currentChapter[1].Title
       /\ Last(addCalls).content = currentChapter[1].Content

\* the loop ended with a skipped entry while a chapter was open
C4_Witness ==
    /\ pc = "write"
    /\ currentChapter # <<>>
    /\ trace # <<>>
    /\ Last(trace).res \in ExtractErrors
    /\ \E k \in 1..Len(trace) : trace[k].res \notin ExtractErrors
    /\ Last(addCalls).content = currentChapter[1].Content

(***************************************************************************)
(* C5 -- an entry whose fetch fails is skipped.                            *)
(***************************************************************************)
FetchErrors == {"transport", "status"}

\* C5: a loop step whose fetch fails leaves the open chapter and the
\* AddChapter calls unchanged and stays in the loop with a zero-free exit
\* state; once the loop is over every entry has been taken.
C5_FetchFailureSkips ==
    /\ [][(trace' # trace /\ Last(trace').res \in FetchErrors)
          => /\ currentChapter' = currentChapter
             /\ addCalls' = addCalls
             /\ pc' = "loop"
             /\ exitCode' = exitCode
             /\ i' = i + 1]_vars
    /\ [](AfterLoop => [k \in 1..Len(trace) |-> trace[k].idx]
                          = [k \in 1..Len(urlEntries) |-> k])

\* a fetch failure in the middle of the list, later entries processed
C5_Witness ==
    /\ pc = "done"
    /\ exitCode = 0
    /\ Len(trace) = 3
    /\ trace[2].res \in FetchErrors
    /\ trace[1].res \notin ExtractErrors
    /\ trace[3].res \notin ExtractErrors

(***************************************************************************)
(* Vocabulary of the page claims.                                          *)
(***************************************************************************)
\* what pattern j of DefaultPatterns reports for the fetched page
PatternResult(j) == Extract(DefaultPatterns[j], page, debug)

\* the content document extractContentWithPatterns hands to the transforms
Located == NewDocument(PatternResult(Len(tried)).content)

\* the entry's page has gone through every transform and ProcessImages
Normalized == ppc = "appended"

\* the container AdvancedPattern clones for the page
ClonedContainer == WithIds(Clone(page, ParentDiv(page, FindTitle(page, debug))))

\* the anchor is found again in the clone: the pattern's selector matches
\* there and an element of the clone is structurally identical to the match
Relocatable ==
    /\ FirstTitle(ClonedContainer) # 0
    /\ \E k \in 2..Len(ClonedContainer) :
          isSameElement(ClonedContainer, k, ClonedContainer, FirstTitle(ClonedContainer))

\* position of the first occurrence of a transform in the log, 0 if absent
FirstAt(name) ==
    LET at == {j \in 1..Len(passes) : passes[j] = name}
    IN  IF at = {} THEN 0 ELSE Min(at)

\* the ten transforms in the order in which they are numbered
StatedOrder == <<"widget", "title", "domain", "part", "empty", "navigation",
                 "lastthree", "images", "attributes", "whitespace">>

\* the transforms in the order of ExtractContent, CleanHTML, ProcessImages
CodeOrder == <<"empty", "widget", "title", "domain", "part", "navigation",
               "lastthree", "divs", "widget", "attributes", "emptyparagraphs",
               "readability", "whitespace", "images">>

\* a paragraph of t wraps a span styled font-weight:800 with a Part text
PartParagraphs(t) ==
    {k \in 2..Len(t) :
        /\ t[k].tag = "span" /\ HasFontWeight800(t[k].style)
        /\ IsPartText(TextOf(t, k))
        /\ t[Parent(t, k)].tag = "p"}

\* the images of t
Images(t) == {k \in 2..Len(t) : t[k].tag = "img"}

(***************************************************************************)
(* C6: the patterns are tried in the order AdvancedPattern,                *)
(* FallbackPattern; the first one that reports found = true supplies the   *)
(* content and no later pattern is evaluated; the entry fails with         *)
(* "could not find content" exactly when every pattern was tried and none  *)
(* found the content.                                                      *)
(***************************************************************************)
C6_FirstFoundWins ==
    /\ Len(tried) <= 2
    /\ \A j \in 1..Len(tried) :
          tried[j] = <<"AdvancedPattern", "FallbackPattern">>[j]
    /\ \A j \in 1..(Len(tried) - 1) : ~PatternResult(j).found
    /\ Len(tried) >= 1 => (found <=> PatternResult(Len(tried)).found)
    /\ Len(tried) = 0 => ~found
    /\ ppc = "removeEmpty" => doc = Located
    /\ ppc \notin {"fetch", "locate", "failed"} => found
    /\ net = "notfound" <=>
          /\ ppc = "failed"
          /\ Len(tried) = 2
          /\ \A j \in 1..2 : ~PatternResult(j).found

\* AdvancedPattern found the content of a page on which FallbackPattern
\* would have found other content, and FallbackPattern was not tried
C6_Witness ==
    /\ ppc = "removeEmpty"
    /\ tried = <<"AdvancedPattern">>
    /\ found
    /\ FallbackExtract(page, debug).found
    /\ FallbackExtract(page, debug).content # AdvancedExtract(page, debug).content
    /\ doc = NewDocument(AdvancedExtract(page, debug).content)

(***************************************************************************)
(* C7, as stated: whenever AdvancedPattern has an anchor and the anchor    *)
(* is not found again in the clone by the pattern's selector (or no        *)
(* element of the clone is structurally identical to it), AdvancedPattern  *)
(* reports found = false, with debug mode on or off.                       *)
(***************************************************************************)
C7_AsStated ==
    (/\ Len(tried) >= 1
     /\ FindTitle(page, debug) # 0
     /\ ~Relocatable)
    => ~AdvancedExtract(page, debug).found /\ ~(tried = <<"AdvancedPattern">> /\ found)

(***************************************************************************)
(* C8, as stated: the transforms run in the order widget removal, title    *)
(* removal, domain-line removal, Part promotion, empty-element removal,    *)
(* navigation removal, last-three-centered removal, image conversion,      *)
(* attribute stripping, whitespace collapse.                               *)
(***************************************************************************)
C8_AsStated ==
    Normalized =>
        /\ \A j \in 1..Len(StatedOrder) : FirstAt(StatedOrder[j]) # 0
        /\ \A j \in 1..(Len(StatedOrder) - 1) :
              FirstAt(StatedOrder[j]) < FirstAt(StatedOrder[j + 1])

(***************************************************************************)
(* C8, amended: the transforms run in the order of the code: empty-element *)
(* removal, widget removal, title removal, domain-line removal, Part       *)
(* promotion, navigation removal, last-three-centered removal, div to      *)
(* paragraph conversion, widget removal again, attribute stripping,        *)
(* empty-paragraph removal, readability, whitespace collapse, and image    *)
(* conversion last; the document ExtractContent returns is the located     *)
(* content with its six transforms applied in that order.                  *)
(***************************************************************************)
C8_PassesInCodeOrder ==
    /\ Len(passes) <= Len(CodeOrder)
    /\ passes = SubSeq(CodeOrder, 1, Len(passes))
    /\ Normalized => passes = CodeOrder
    /\ ppc = "clean" =>
          doc = convertDivsToParagraphs(
                  processNavigationElements(
                    convertPartHeadings(
                      removeBlogURLEntries(
                        removeRedundantElements(
                          removeEmptyElements(Located))))))

\* a page has gone through all the transforms, and the early empty-element
\* removal and the late image conversion both changed it
C8_Witness ==
    /\ Normalized
    /\ passes = CodeOrder
    /\ removeEmptyElements(Located) # Located
    /\ \E k \in Images(doc) : doc[k].src = InternalPath("image")

(***************************************************************************)
(* C9, as stated: when the located content has a paragraph that wraps a    *)
(* span styled font-weight:800 whose text begins with "part ", the         *)
(* content ExtractContent returns has an h3 with exactly that text.        *)
(***************************************************************************)
C9_AsStated ==
    ppc = "clean" =>
        \A k \in PartParagraphs(Located) :
            \E h \in 2..Len(doc) :
                /\ doc[h].tag = "h3"
                /\ doc[h].text = TextOf(Located, k)
                /\ Desc(doc, h) = {}

(***************************************************************************)
(* C10, as stated: in the fragment that is appended to the chapter no      *)
(* image has a relative source URL of the page left.                       *)
(***************************************************************************)
C10_AsStated ==
    Normalized => \A k \in Images(doc) : doc[k].src \notin RelURLs

(***************************************************************************)
(* Vocabulary of the image claims.                                         *)
(***************************************************************************)
\* the references of the log made by the plain-image loop
PlainReferences == {j \in 1..Len(imgLog) : imgLog[j].name.prefix = "image"}

\* positions of the log whose image was stored in the book
Stored == {j \in 1..Len(imgLog) : imgLog[j].res = "ok"}

(***************************************************************************)
(* C11, as stated: an image of the plain-image loop whose download, save   *)
(* or registration failed is no longer in the fragment that is appended.   *)
(***************************************************************************)
C11_AsStated ==
    Normalized =>
        \A j \in PlainReferences :
            imgLog[j].res = "fail" =>
                \A k \in Images(doc) : doc[k].src # imgLog[j].src

(***************************************************************************)
(* C12, as stated: a reference to a resolved URL whose image the book      *)
(* already holds reuses that asset: it gets the file name of the first     *)
(* reference and no second asset is stored for the URL.                    *)
(***************************************************************************)
C12_AsStated ==
    \A j \in Stored : \A k \in 1..Len(imgLog) :
        (j < k /\ imgLog[k].url = imgLog[j].url) =>
            /\ imgLog[k].name = imgLog[j].name
            /\ k \notin Stored

Extracted ==
    convertDivsToParagraphs(
      processNavigationElements(
        convertPartHeadings(
          removeBlogURLEntries(
            removeRedundantElements(
              removeEmptyElements(Located))))))

\* node k of t is no image and has an inline style or a presentation
\* attribute
Presentational(t, k) ==
    /\ t[k].tag # "img"
    /\ \/ t[k].style # ""
       \/ t[k].attrs \cap {"align", "width", "height", "border", "bgcolor", "color"} # {}

(***************************************************************************)
(* C14: in a normalized fragment no element other than an image has a      *)
(* style, align, width, height, border, bgcolor or color attribute, and    *)
(* stripping the presentation attributes again leaves it unchanged.        *)
(***************************************************************************)
C14_StrippingIdempotent ==
    ppc \in {"readability", "linkimages", "images", "assemble", "appended"} =>
        /\ \A k \in 2..Len(doc) : ~Presentational(doc, k)
        /\ stripPresentation(doc) = doc

\* a fragment whose extracted content had a styled paragraph, which is in
\* the normalized fragment without its style, next to a styled image
C14_Witness ==
    /\ Normalized
    /\ \E k \in 2..Len(Extracted) :
          /\ Extracted[k].tag = "p" /\ Presentational(Extracted, k)
          /\ \E m \in 2..Len(doc) :
                /\ doc[m].tag = "p"
                /\ doc[m].text = Extracted[k].text
                /\ doc[m].text # <<>>
    /\ \E k \in Images(doc) : doc[k].style # ""

(***************************************************************************)
(* C15, as stated: every page request of the run but the last is followed  *)
(* by the delay before the next page request is made, whatever the         *)
(* request's outcome was.                                                  *)
(***************************************************************************)
C15_AsStated ==
    \A j \in 1..(Len(timeline) - 1) :
        timeline[j] = "fetch" => timeline[j + 1] = "sleep"

(***************************************************************************)
(* Vocabulary of the list claims.                                          *)
(***************************************************************************)
\* the string without the blanks around it
Core(f) ==
    LET ink == {j \in 1..Len(f) : f[j] # " " /\ f[j] # "\n"}
    IN  IF ink = {} THEN <<>> ELSE SubSeq(f, Min(ink), Max(ink))

\* "::" occurs in f
HasSeparator(f) == \E j \in 1..(Len(f) - 1) : f[j] = ":" /\ f[j + 1] = ":"

\* f is a well-formed field with blanks around it: not empty, without a
\* line break and without "::"
PaddedField(f) ==
    /\ f # <<>>
    /\ \A j \in 1..Len(f) : f[j] # "\n"
    /\ ~HasSeparator(f)

\* the part of the file before position c and the part from position c on
Before(c) == SubSeq(data, 1, c - 1)
From(c) == SubSeq(data, c, Len(data))

\* the file is the line title::url, the separator at position c
IsRecordLine(c) ==
    /\ c \in 1..(Len(data) - 1)
    /\ data[c] = ":" /\ data[c + 1] = ":"
    /\ PaddedField(Before(c))
    /\ PaddedField(From(c + 2))

\* the entry of the record whose separator is at position c
RecordAt(c) == [Title |-> Core(Before(c)), URL |-> Core(From(c + 2))]

(***************************************************************************)
(* C16, as stated: when the file is one line title::url of a well-formed   *)
(* record, with blanks around the fields, ReadURLList returns exactly      *)
(* that title and URL, the blanks trimmed.                                 *)
(***************************************************************************)
C16_AsStated ==
    lpc = "done" =>
        \A c \in 1..Len(data) :
            IsRecordLine(c) => entries.list = <<RecordAt(c)>>

(***************************************************************************)
(* C16, amended: the same for the records whose title does not end with a  *)
(* colon.                                                                  *)
(***************************************************************************)
C16_RoundTrip ==
    lpc = "done" =>
        \A c \in 1..Len(data) :
            (/\ IsRecordLine(c)
             /\ Core(Before(c)) # <<>> => Core(Before(c))[Len(Core(Before(c)))] # ":")
            => entries.list = <<RecordAt(c)>>

\* a record with blanks before and after its title and before its URL, and
\* a colon in its URL, was read back
C16_Witness ==
    /\ lpc = "done"
    /\ \E c \in 3..Len(data) :
          /\ IsRecordLine(c)
          /\ data[1] = " " /\ data[c - 1] = " " /\ data[c + 2] = " "
          /\ Core(Before(c)) # <<>>
          /\ Core(From(c + 2)) # <<>>
          /\ entries.list = <<RecordAt(c)>>

\* positions at which a line of the file starts
LineStarts == {1} \cup {j + 1 : j \in {k \in 1..Len(data) : data[k] = "\n"}}

\* the line that starts at position p, without its line break
LineAt(p) ==
    LET ends == {j \in p..Len(data) : data[j] = "\n"}
    IN  SubSeq(data, p, IF ends = {} THEN Len(data) ELSE Min(ends) - 1)

\* the line has exactly two fields: "::" occurs at c, not before c and not
\* after it
FieldsAt(l, c) ==
    /\ c \in 1..(Len(l) - 1)
    /\ l[c] = ":" /\ l[c + 1] = ":"
    /\ ~HasSeparator(SubSeq(l, 1, c))
    /\ ~HasSeparator(SubSeq(l, c + 2, Len(l)))

WellFormedLine(l) == \E c \in 1..Len(l) : FieldsAt(l, c)

EntryOf(l) ==
    LET c == CHOOSE c \in 1..Len(l) : FieldsAt(l, c)
    IN  [Title |-> Core(SubSeq(l, 1, c - 1)), URL |-> Core(SubSeq(l, c + 2, Len(l)))]

RECURSIVE ExpectedEntries(_)
\* the entries of the well-formed lines that start at the positions of S,
\* in file order
ExpectedEntries(S) ==
    IF S = {} THEN <<>>
    ELSE LET l == Core(LineAt(Min(S)))
         IN  (IF WellFormedLine(l) THEN <<EntryOf(l)>> ELSE <<>>)
             \o ExpectedEntries(S \ {Min(S)})

RECURSIVE ExpectedInvalid(_)
\* the lines that are neither blank nor well-formed, in file order
ExpectedInvalid(S) ==
    IF S = {} THEN <<>>
    ELSE LET l == Core(LineAt(Min(S)))
         IN  (IF l # <<>> /\ ~WellFormedLine(l) THEN <<l>> ELSE <<>>)
             \o ExpectedInvalid(S \ {Min(S)})

(***************************************************************************)
(* C17: ReadURLList fails only when the file cannot be read; from a        *)
(* readable file it returns exactly the entries of the lines that split    *)
(* into two "::"-separated fields, in file order, reports every other      *)
(* non-blank line as invalid, and ignores the blank lines.                 *)
(***************************************************************************)
C17_MalformedLinesSkipped ==
    /\ [](lpc = "done" =>
            /\ entries.list = ExpectedEntries(LineStarts)
            /\ entries.invalid = ExpectedInvalid(LineStarts))
    /\ [][lpc' = "error" => lpc = "missing"]_vars
    /\ [][lpc = "readable" => lpc' = "done"]_vars

\* a file with a well-formed line, a blank line and an invalid line
C17_Witness ==
    /\ lpc = "done"
    /\ Len(entries.list) >= 1
    /\ Len(entries.invalid) >= 1
    /\ \E j \in 2..(Len(data) - 2) : data[j] = "\n" /\ data[j + 1] = "\n"
    /\ Len(entries.list) + Len(entries.invalid) < Cardinality(LineStarts)

(***************************************************************************)
(* The exit code of Execute.                                               *)
(***************************************************************************)
\* the steps of Execute before the entry loop
SetupSteps == {"parse", "cover", "css", "readlist"}

\* C18: Execute returns 0 exactly when it ran to the end and the book was
\* written, and 1 when it stopped; it stops only in a setup step (command
\* line, cover, stylesheet, input list) or when the book cannot be written.
\* The entry loop and the adding of the last chapter never set the exit code
\* and never stop the run, whatever failed for an entry, an image or a
\* chapter.
C18_ExitCode ==
    /\ [](pc = "done" => exitCode = 0)
    /\ [](pc = "exit" => exitCode = 1)
    /\ [](pc \notin {"done", "exit"} => exitCode = -1)
    /\ [][pc' = "exit" => pc \in SetupSteps \cup {"write"}]_vars
    /\ [][pc' = "done" => pc = "write"]_vars
    /\ [][pc = "loop" => exitCode' = exitCode /\ pc' \in {"loop", "write"}]_vars

\* a run that returned 0 although an entry could not be fetched, another had
\* no content, an image could not be stored and AddChapter failed
C18_Witness ==
    /\ pc = "done"
    /\ exitCode = 0
    /\ imageWarned
    /\ \E k \in 1..Len(trace) : trace[k].res \in FetchErrors
    /\ \E k \in 1..Len(trace) : trace[k].res = "notfound"
    /\ \E k \in 1..Len(addCalls) : addCalls[k].err

(***************************************************************************)
(* Vocabulary of the downloader claim.                                     *)
(***************************************************************************)
\* a call of DownloadFile has just returned
Called == dpc' = dpc + 1

\* the call that has just returned asked for the cache
AskedCache == debug /\ dlRet'.filename # ""

\* the call that has just returned made one request, for its URL
Requested ==
    /\ Len(requests') = Len(requests) + 1
    /\ SubSeq(requests', 1, Len(requests)) = requests
    /\ Last(requests').url = dlRet'.url

\* the request of the call got a 200 response with a body
GotBody ==
    /\ Last(requests').resp.kind = "ok"
    /\ Last(requests').resp.body # EmptyBody

\* C19: in debug mode and with a file name, a call of DownloadFile returns
\* the bytes of the file of that name when the file exists, makes no request
\* and leaves the files alone; when the file does not exist it makes the
\* request and, on a 200 response with a body, returns the body and stores it
\* under that name (a store that fails is reported and changes no file); on
\* any other response it returns an error and stores nothing.  With debug
\* off, or without a file name, every call makes the request, returns what
\* the request gave and changes no file.
C19_CacheReadThroughWriteThrough ==
    /\ [][(Called /\ AskedCache /\ cache[dlRet'.filename] # NoBytes)
            => /\ dlRet'.data = cache[dlRet'.filename]
               /\ dlRet'.err = "none"
               /\ requests' = requests
               /\ cache' = cache]_vars
    /\ [][(Called /\ AskedCache /\ cache[dlRet'.filename] = NoBytes)
            => /\ Requested
               /\ IF GotBody
                  THEN /\ dlRet'.data = Last(requests').resp.body
                       /\ dlRet'.err = "none"
                       /\ IF dlRet'.warned
                          THEN cache' = cache
                          ELSE cache' = [cache EXCEPT ![dlRet'.filename] =
                                                        dlRet'.data]
                  ELSE /\ dlRet'.err # "none"
                       /\ cache' = cache]_vars
    /\ [][(Called /\ ~AskedCache)
            => /\ Requested
               /\ cache' = cache
               /\ IF GotBody
                  THEN dlRet'.data = Last(requests').resp.body /\ dlRet'.err = "none"
                  ELSE dlRet'.err # "none"]_vars

\* in debug mode a first call fetched a body for a name that had no file, and
\* a second call for the same name and another URL returned that body without
\* a request
C19_Witness ==
    /\ debug
    /\ dpc = 2
    /\ Len(requests) = 1
    /\ requests[1].resp.kind = "ok"
    /\ dlRet.filename # ""
    /\ dlRet.err = "none"
    /\ dlRet.data = requests[1].resp.body
    /\ cache[dlRet.filename] = dlRet.data
    /\ dlRet.url # requests[1].url

(***************************************************************************)
(* Chapters without content.                                               *)
(***************************************************************************)
\* C20: every chapter passed to AddChapter, at a title change or after the
\* last entry, has at least one appended fragment and content of more than
\* zero bytes; when no entry was processed, no chapter is passed at all.
C20_NoEmptyChapter ==
    /\ \A k \in 1..Len(addCalls) :
        /\ addCalls[k].content # <<>>
        /\ SumLen(addCalls[k].content) > 0
    /\ (\A k \in 1..Len(trace) : trace[k].res \in ExtractErrors)
        => addCalls = <<>>

\* after the loop: one chapter was added at a title change and one after the
\* last entry, and an entry between them gave no content
C20_Witness ==
    /\ pc = "write"
    /\ Len(addCalls) = 2
    /\ addCalls[1].at < Len(urlEntries)
    /\ addCalls[2].at = Len(urlEntries)
    /\ \A k \in 1..2 : Len(addCalls[k].content) = 1
    /\ \E k \in 1..Len(trace) : trace[k].res = "notfound"

\* after the loop: every entry failed, there is no chapter and nothing was
\* added
C20_WitnessNoChapter ==
    /\ pc = "write"
    /\ Len(trace) = MaxEntries
    /\ currentChapter = <<>>
    /\ addCalls = <<>>


(***************************************************************************)
(* The fallback pattern.                                                   *)
(***************************************************************************)
\* the page has a main-content container, Find(".post-body")
HasMainContent == \E k \in 2..Len(page) : page[k].cls = "post-body"

\* the class names FallbackPattern removes
NavClasses == {"post-header", "post-footer", "post-bottom"}

\* C21, as stated: a fetched page on which the pattern's selector matches no
\* element and that has a .post-body container is extracted by
\* FallbackPattern with found = true, and the content it hands on has no
\* element of class post-header, post-footer or post-bottom.
C21_AsStated ==
    (/\ ppc = "removeEmpty"
     /\ FirstTitle(page) = 0
     /\ HasMainContent)
    => /\ found
       /\ Last(tried) = "FallbackPattern"
       /\ \A k \in 2..Len(doc) : doc[k].cls \notin NavClasses


(***************************************************************************)
(* Termination of a run.                                                   *)
(***************************************************************************)
\* C22, as stated: every run over a finite entry list reaches the writing
\* of the book or a fatal exit, whatever the servers do.
C22_AsStated == <>(pc \in {"write", "done", "exit"})


(***************************************************************************)
(* The removal loop of AdvancedPattern.                                    *)
(***************************************************************************)
\* position of the anchor in the cloned container (clonedTitle)
ClonedTitle == FindTitle(ClonedContainer, debug)

\* positions of the cloned container that are in the content AdvancedPattern
\* returned (the content keeps the identities WithIds gave the clone)
KeptOfContainer == {doc[k].id : k \in 2..Len(doc)}

\* AdvancedPattern has just returned the content
AnchorSucceeded ==
    /\ ppc = "removeEmpty"
    /\ tried = <<"AdvancedPattern">>
    /\ found

\* another element of the container has the tag and the inner markup of the
\* anchor
AnchorHasTwin ==
    \E k \in 2..Len(ClonedContainer) :
        /\ k # ClonedTitle
        /\ isSameElement(ClonedContainer, k, ClonedContainer, ClonedTitle)

\* C23, as stated: when AdvancedPattern succeeds, the content it returns
\* holds of the cloned container exactly the anchor, the elements after the
\* anchor in document order and the ancestors of the anchor.
C23_AsStated ==
    AnchorSucceeded =>
        KeptOfContainer =
            {j \in 2..Len(ClonedContainer) :
                j >= ClonedTitle \/ j \in Ancestors(ClonedContainer, ClonedTitle)}


(***************************************************************************)
(* The last three centered elements.                                       *)
(***************************************************************************)
\* the centered elements the keyword rule inspects:
\* p[style*='center'], div[style*='center']
Centered(t) ==
    {k \in 2..Len(t) : t[k].tag \in {"p", "div"} /\ HasCenter(t[k].style)}

\* the fragment without the last three centered elements that remain, when
\* there are three
WithoutLastThree(t) ==
    IF Cardinality(Centered(t)) >= 3
    THEN RemoveSet(t, LastN(Centered(t), 3))
    ELSE t

\* C24, as stated: processNavigationElements leaves the fragment that the
\* keyword rule leaves, without the last three of the centered elements that
\* remain in it when at least three remain, and unchanged otherwise; the
\* centered elements are the ones the keyword rule inspects.
C24_AsStated ==
    [][ppc = "navigation" => doc' = WithoutLastThree(removeNavigation(doc))]_vars


(***************************************************************************)
(* Images wrapped in a link.                                               *)
(***************************************************************************)
\* positions of the links of t that wrap an image and whose target names an
\* image file
ImageLinks(t) ==
    {k \in 2..Len(t) :
        /\ t[k].tag = "a"
        /\ HasImg(t, k)
        /\ t[k].href # ""
        /\ IsImageURL(t[k].href)}

\* the j-th smallest element of a set of positions
RECURSIVE Nth(_, _)
Nth(S, j) == IF j = 1 THEN Min(S) ELSE Nth(S \ {Min(S)}, j - 1)

\* the references a step of ProcessImages added to the log
NewReferences == SubSeq(imgLog', Len(imgLog) + 1, Len(imgLog'))

\* the link loop: one reference per image link, in document order, for the
\* target of the link; a stored target replaces the link by the image alone,
\* whose source is the stored asset; a failed target leaves the link and its
\* image as they were
LinksTakeTarget ==
    ppc = "linkimages" =>
        /\ Len(NewReferences) = Cardinality(ImageLinks(doc))
        /\ \A j \in 1..Len(NewReferences) :
            LET k == Nth(ImageLinks(doc), j)
                e == NewReferences[j]
                now == {m \in 2..Len(doc') : doc'[m].id \in {k} \cup Desc(doc, k)}
            IN  /\ e.src = doc[k].href
                /\ e.url = resolveURL(doc[k].href, PageURL)
                /\ e.name.prefix = "fullimg"
                /\ IF e.res = "ok"
                   THEN now = {}
                   ELSE /\ Cardinality(now) = 1 + Cardinality(Desc(doc, k))
                        /\ \A m \in now :
                              doc'[m] = [doc[doc'[m].id] EXCEPT !.id = doc'[m].id]
        /\ LET fresh == {m \in 2..Len(doc') : doc'[m].id = 0}
           IN  /\ Cardinality(fresh) =
                     Cardinality({j \in 1..Len(NewReferences) :
                                     NewReferences[j].res = "ok"})
               /\ \A m \in fresh :
                     /\ doc'[m].tag = "img"
                     /\ doc'[m].src = InternalPath("fullimg")
                     /\ BlockEnd(doc', m) = m

\* the image loop: an image that the link loop stored is not fetched again,
\* an image that is still wrapped in its link is fetched from its own source
PlainPassSkipsStored ==
    ppc = "images" =>
        /\ \A j \in 1..Len(NewReferences) :
              /\ NewReferences[j].src # InternalPath("fullimg")
              /\ NewReferences[j].name.prefix = "image"
        /\ \A k \in ImageLinks(doc) : \A m \in Desc(doc, k) :
              doc[m].tag = "img" =>
                  \E j \in 1..Len(NewReferences) :
                      /\ NewReferences[j].src = doc[m].src
                      /\ NewReferences[j].url = resolveURL(doc[m].src, PageURL)

C25_WitnessFallThrough ==
    /\ ppc = "assemble"
    /\ \E j, k \in 1..Len(imgLog) :
          /\ j < k
          /\ imgLog[j].name.prefix = "fullimg"
          /\ imgLog[j].res = "fail"
          /\ imgLog[k].name.prefix = "image"
          /\ imgLog[k].src = "http://h/c.png"
          /\ imgLog[k].res = "ok"
    /\ \E m \in 2..Len(doc) : doc[m].tag = "a"


(***************************************************************************)
(* Images and the cleaning passes.                                         *)
(***************************************************************************)
\* the images of t and the elements that contain an image, in document
\* order, each with its depth and its source
ImageSpine(t) ==
    LET keep == Filter(t, {k \in 1..Len(t) : t[k].tag = "img" \/ HasImg(t, k)}, 1)
    IN  [j \in 1..Len(keep) |-> [d |-> keep[j].d, src |-> keep[j].src]]

\* the steps that remove empty elements: removeEmptyElements, the removal of
\* empty paragraphs in CleanHTML, and the removal of the divs that hold a
\* line break only
EmptyElementPass == ppc \in {"removeEmpty", "clean", "divs"}

\* C26: every image with a source that is in the fragment before
\* go-readability runs is, with the same source, in the fragment CleanHTML
\* returns, whether go-readability fails, keeps the image or drops it; and
\* the passes that remove empty elements remove no image and no element
\* that contains an image.
C26_ImagesKept ==
    /\ [][ppc = "readability" =>
            \A k \in Images(doc) :
                doc[k].src # "" =>
                    \E m \in Images(doc') : doc'[m].src = doc[k].src]_vars
    /\ [][EmptyElementPass => ImageSpine(doc') = ImageSpine(doc)]_vars

\* CleanHTML has returned a fragment in which a link has lost its image and
\* the image is back in a paragraph of its own
C26_Witness ==
    /\ ppc = "linkimages"
    /\ \E k \in 2..Len(doc) : doc[k].tag = "a" /\ ~HasImg(doc, k)
    /\ \E m \in Images(doc) :
          /\ doc[m].src = "http://h/c.png"
          /\ doc[Parent(doc, m)].tag = "p"
          /\ Parent(doc, Parent(doc, m)) = 1


(***************************************************************************)
(* The debug flag and the content.                                         *)
(***************************************************************************)
RECURSIVE LocateFrom(_, _)
\* what the loop of extractContentWithPatterns gives for the fetched page
\* from pattern j on when debugCfg.enabled is dbg: the name of the first
\* pattern that finds the content and the content, or no pattern
LocateFrom(j, dbg) ==
    IF j > Len(DefaultPatterns) THEN [by |-> "none", content |-> <<>>]
    ELSE IF Extract(DefaultPatterns[j], page, dbg).found
         THEN [by |-> DefaultPatterns[j],
               content |-> Extract(DefaultPatterns[j], page, dbg).content]
         ELSE LocateFrom(j + 1, dbg)

\* C27, as stated: for a fetched page, the pattern that wins and the content
\* it extracts are the same with debug mode on and with debug mode off.
C27_AsStated ==
    ppc = "locate" => LocateFrom(1, TRUE) = LocateFrom(1, FALSE)


(***************************************************************************)
(* C28 -- one chapter, one chapter run.                                    *)
(***************************************************************************)
\* the entries a chapter's pieces come from lie in one chapter run of the
\* input list: every entry between two of them declares their title
InOneRun(ids) ==
    \A x \in 1..Len(ids) : \A y \in 1..Len(ids) :
        \A k \in ids[x]..ids[y] : TitleOf(k) = TitleOf(ids[x])

\* C28, as stated: the fragments of every chapter assembled so far come from
\* a single chapter run of the input list; entries of equal title that a
\* differently titled entry separates are never in one chapter, also when
\* the separating entry failed and was skipped.
C28_AsStated ==
    \A c \in 1..Len(AssembledIds) : InOneRun(AssembledIds[c])


(***************************************************************************)
(* C29 -- what the promotion of a Part marker leaves alone.                *)
(***************************************************************************)
\* the text of a document that is not the text of a Part marker, in
\* document order
OtherText(t) == SelectSeq(TextOf(t, 1), LAMBDA w : w \notin PartTokens)

\* the sources of the images of a document, in document order
ImageSources(t) ==
    LET imgs == Filter(t, Images(t), 1)
    IN  [j \in 1..Len(imgs) |-> imgs[j].src]

\* C29, as stated: convertPartHeadings changes the marker and its wrappers
\* only; the text that is not a marker's own text and the images of the
\* fragment, also those inside the paragraph or div that encloses the
\* marker, are there after the pass.
C29_AsStated ==
    [][ppc = "convertPart" =>
          /\ OtherText(doc') = OtherText(doc)
          /\ ImageSources(doc') = ImageSources(doc)]_vars


(***************************************************************************)
(* C30 -- the book holds every processed fragment once.                    *)
(***************************************************************************)
RECURSIVE BodiesFrom(_)
\* the pieces of the bodies handed to AddChapter from call k on, one after
\* the other: where each piece comes from
BodiesFrom(k) ==
    IF k > Len(addCalls) THEN <<>>
    ELSE [j \in 1..Len(addCalls[k].body.content) |->
              [src |-> addCalls[k].body.content[j].src,
               id |-> addCalls[k].body.content[j].id]]
         \o BodiesFrom(k + 1)

\* the fragments of the processed entries, in input order
ProcessedFragments ==
    [j \in 1..Len(SuccIdx) |-> [src |-> "entry", id |-> SuccIdx[j]]]

AllAdded == \A k \in 1..Len(addCalls) : ~addCalls[k].err

\* C30, as stated: when Write is called and every AddChapter call
\* succeeded, the bodies of the emitted chapters, in emission order, are
\* together the fragments of the processed entries in input order, each
\* once, and each in a chapter that has the title of its entry.
C30_AsStated ==
    (pc = "write" /\ AllAdded) =>
        /\ BodiesFrom(1) = ProcessedFragments
        /\ \A k \in 1..Len(addCalls) :
              \A j \in 1..Len(addCalls[k].body.content) :
                  /\ addCalls[k].body.content[j].src = "entry"
                  /\ addCalls[k].title = addCalls[k].body.title
                  /\ TitleOf(addCalls[k].body.content[j].id) = addCalls[k].title

=============================================================================
